---- MODULE Spec2Model ----
(***************************************************************************)
(* Model of src/app.py (gestionstagiaires): the JSON store of training     *)
(* sessions and trainees, the document slots of a trainee, the dossier     *)
(* completeness evaluator, the load-time normalisation of legacy records   *)
(* and the file reference resolver.                                        *)
(*                                                                         *)
(* Representation.  A Python str on which the code works character by      *)
(* character (strip, upper, replace, regular expressions) is a sequence of *)
(* one-character strings; an accented character is one element written     *)
(* with an ASCII name ("E-acute").  Identifiers and enum tokens the code    *)
(* only compares for equality are TLA+ strings.  A Python dict is a        *)
(* function whose DOMAIN is the set of keys present.  None and a non-str   *)
(* JSON value are the sentinels NONE and NONSTR.                           *)
(*                                                                         *)
(* Fields that no modelled code reads are left out of the records:         *)
(* updated_at, created_at, file_token, file_tokens, deliverables, cnaps,   *)
(* hosting_status, access_sent_*, names and contact data.                  *)
(***************************************************************************)
EXTENDS Integers, Sequences, FiniteSets, TLC

VARIABLES
    disk,     \* content of DATA_FILE (data.json), or NoFile
    nfiles,   \* number of files stored so far by _store_file (names are fresh)
    last,     \* the last request served: its handler, arguments and outcome
    reqs,     \* requests in flight when handlers interleave (SpecConc)
    inp,      \* argument of the pure function under study (SpecPath, SpecLegacy)
    out,      \* its result
    pc        \* position of the pure-function run: "call" or "done"

vars == <<disk, nfiles, last, reqs, inp, out, pc>>

-----------------------------------------------------------------------------
(* Python values *)

NONE == <<"<None>">>
NONSTR == <<"<int>">>

IsStr(v) == v # NONE /\ v # NONSTR

\* d.get(k)
Get(d, k) == IF k \in DOMAIN d THEN d[k] ELSE NONE

\* d[k] = v
Put(d, k, v) == [x \in DOMAIN d \cup {k} |-> IF x = k THEN v ELSE d[x]]

\* d.pop(k, None)
Pop(d, k) == [x \in DOMAIN d \ {k} |-> d[x]]

\* (v or ""): None and the empty string are falsy, NONSTR is a truthy non-str
OrEmpty(v) == IF v = NONE \/ v = <<>> THEN <<>> ELSE v

Whitespace == {" ", "\t", "\n"}

RECURSIVE LStripWs(_)
LStripWs(s) == IF s # <<>> /\ Head(s) \in Whitespace THEN LStripWs(Tail(s)) ELSE s

RECURSIVE RStripWs(_)
RStripWs(s) ==
    IF s # <<>> /\ s[Len(s)] \in Whitespace THEN RStripWs(SubSeq(s, 1, Len(s) - 1)) ELSE s

\* str.strip()
Strip(s) == RStripWs(LStripWs(s))

LowerChars == <<"a", "b", "c", "d", "e", "f", "g", "h", "i", "j", "k", "l", "m", "n",
                "o", "p", "q", "r", "s", "t", "u", "v", "w", "x", "y", "z",
                "e-acute", "o-circ">>
UpperChars == <<"A", "B", "C", "D", "E", "F", "G", "H", "I", "J", "K", "L", "M", "N",
                "O", "P", "Q", "R", "S", "T", "U", "V", "W", "X", "Y", "Z",
                "E-acute", "O-circ">>

UpperCh(c) ==
    IF \E i \in 1..Len(LowerChars) : LowerChars[i] = c
    THEN UpperChars[CHOOSE i \in 1..Len(LowerChars) : LowerChars[i] = c]
    ELSE c

LowerCh(c) ==
    IF \E i \in 1..Len(UpperChars) : UpperChars[i] = c
    THEN LowerChars[CHOOSE i \in 1..Len(UpperChars) : UpperChars[i] = c]
    ELSE c

\* str.upper(), str.lower()
Upper(s) == [i \in 1..Len(s) |-> UpperCh(s[i])]
Lower(s) == [i \in 1..Len(s) |-> LowerCh(s[i])]

\* str.replace(c, d) for single characters c, d
ReplaceCh(s, c, d) == [i \in 1..Len(s) |-> IF s[i] = c THEN d ELSE s[i]]

\* str.replace(c, "") for a single character c
RECURSIVE RemoveCh(_, _)
RemoveCh(s, c) ==
    IF s = <<>> THEN <<>>
    ELSE IF Head(s) = c THEN RemoveCh(Tail(s), c)
    ELSE <<Head(s)>> \o RemoveCh(Tail(s), c)

\* x in list
InSeq(x, l) == \E i \in 1..Len(l) : l[i] = x

\* all strings over alphabet A of length at most n
RECURSIVE StringsUpTo(_, _)
StringsUpTo(A, n) ==
    IF n = 0 THEN {<<>>}
    ELSE LET shorter == StringsUpTo(A, n - 1)
         IN  shorter \cup {<<c>> \o s : c \in A, s \in {t \in shorter : Len(t) = n - 1}}

-----------------------------------------------------------------------------
(* String literals of the source *)

S_NON_DEPOSE_ACC == <<"N", "O", "N", " ", "D", "E-acute", "P", "O", "S", "E-acute">>
S_NON_DEPOSE == <<"N", "O", "N", " ", "D", "E", "P", "O", "S", "E">>
S_NON_DEPOSE_US == <<"N", "O", "N", "_", "D", "E", "P", "O", "S", "E">>
S_A_CONTROLER_ACC == <<"A", " ", "C", "O", "N", "T", "R", "O-circ", "L", "E", "R">>
S_A_CONTROLER == <<"A", " ", "C", "O", "N", "T", "R", "O", "L", "E", "R">>
S_CONFORME == <<"C", "O", "N", "F", "O", "R", "M", "E">>
S_NON_CONFORME == <<"N", "O", "N", " ", "C", "O", "N", "F", "O", "R", "M", "E">>
S_APS == <<"A", "P", "S">>
S_A3P == <<"A", "3", "P">>
S_DIRIGEANT_VAE == <<"D", "I", "R", "I", "G", "E", "A", "N", "T", " ", "V", "A", "E">>
S_complet == <<"c", "o", "m", "p", "l", "e", "t">>

-----------------------------------------------------------------------------
(* File reference resolver *)

\* PERSIST_DIR, the storage root (default of the environment variable)
PERSIST_DIR == <<"/", "d", "a", "t", "a">>

\* str.replace("..", ""): non-overlapping occurrences, left to right
RECURSIVE RemoveDotDot(_)
RemoveDotDot(s) ==
    IF s = <<>> THEN <<>>
    ELSE IF Len(s) >= 2 /\ s[1] = "." /\ s[2] = "." THEN RemoveDotDot(SubSeq(s, 3, Len(s)))
    ELSE <<Head(s)>> \o RemoveDotDot(Tail(s))

\* str.lstrip("/")
RECURSIVE LStripSlash(_)
LStripSlash(s) == IF s # <<>> /\ Head(s) = "/" THEN LStripSlash(Tail(s)) ELSE s

\* os.path.join(a, b) on POSIX
PathJoin(a, b) ==
    IF b # <<>> /\ Head(b) = "/" THEN b
    ELSE IF a = <<>> \/ a[Len(a)] = "/" THEN a \o b
    ELSE a \o <<"/">> \o b

_detokenize_path(token) ==
    LET t1 == OrEmpty(token)
        t2 == RemoveDotDot(t1)
        t3 == LStripSlash(t2)
        t4 == ReplaceCh(t3, "\\", "/")
    IN  PathJoin(PERSIST_DIR, t4)

-----------------------------------------------------------------------------
(* Document catalog.  Labels are abbreviated: the code tests only whether a *)
(* label is empty.                                                          *)

S_application_pdf == <<"a", "p", "p", "l", "i", "c", "a", "t", "i", "o", "n", "/", "p", "d", "f">>
S_image_jpeg == <<"i", "m", "a", "g", "e", "/", "j", "p", "e", "g">>
S_image_png == <<"i", "m", "a", "g", "e", "/", "p", "n", "g">>
S_image_ == <<"i", "m", "a", "g", "e", "/">>

DocDef(k, l, a) == [key |-> k, label |-> l, accept |-> a]

\* REQUIRED_DOCS["COMMON"]
REQUIRED_DOCS_COMMON ==
    << DocDef("id", <<"I", "D">>, S_application_pdf),
       DocDef("photo", <<"P", "h", "o", "t", "o">>, S_image_jpeg \o <<",">> \o S_image_png),
       DocDef("carte_vitale_doc", <<"C", "V">>, S_application_pdf),
       DocDef("cnaps_doc", <<"C", "N", "A", "P", "S">>, S_application_pdf) >>

\* REQUIRED_DOCS["A3P_ONLY"]
REQUIRED_DOCS_A3P_ONLY ==
    << DocDef("permis", <<"P", "e", "r", "m", "i", "s">>, S_application_pdf),
       DocDef("certif_med", <<"C", "M">>, S_application_pdf),
       DocDef("assurance_rc", <<"R", "C">>, S_application_pdf) >>

REQUIRED_DOCS == [COMMON |-> REQUIRED_DOCS_COMMON, A3P_ONLY |-> REQUIRED_DOCS_A3P_ONLY]

\* required_docs_for_training with docs = REQUIRED_DOCS["COMMON"], no list():
\* docs += ... then extends the catalog's own list
required_docs_call_shared(catalog, training_type) ==
    IF Upper(Strip(OrEmpty(training_type))) = S_A3P
    THEN [docs |-> catalog.COMMON \o catalog.A3P_ONLY,
          catalog |-> [catalog EXCEPT !.COMMON = catalog.COMMON \o catalog.A3P_ONLY]]
    ELSE [docs |-> catalog.COMMON, catalog |-> catalog]

\* a call of required_docs_for_training when REQUIRED_DOCS is `catalog`: the
\* list it returns and the catalog it leaves; list(...) copies both lists
required_docs_call(catalog, training_type) ==
    IF Upper(Strip(OrEmpty(training_type))) = S_A3P
    THEN [docs |-> catalog.COMMON \o catalog.A3P_ONLY, catalog |-> catalog]
    ELSE [docs |-> catalog.COMMON, catalog |-> catalog]

required_docs_for_training(training_type) ==
    required_docs_call(REQUIRED_DOCS, training_type).docs

allowed_doc_keys_for_training(training_type) ==
    LET req == required_docs_for_training(training_type)
    IN  {req[i].key : i \in 1..Len(req)}

\* d.get("key"); a slot without key has the falsy key ""
KeyOf(d) == IF "key" \in DOMAIN d THEN d.key ELSE ""

\* {d.get("key"): d for d in docs}: the last slot of a key wins
HasSlot(docs, k) == \E i \in 1..Len(docs) : KeyOf(docs[i]) = k
SlotOf(docs, k) ==
    docs[CHOOSE i \in 1..Len(docs) :
            /\ KeyOf(docs[i]) = k
            /\ \A j \in (i + 1)..Len(docs) : KeyOf(docs[j]) # k]

\* t.get("documents") or []
DocsOf(t) == IF "documents" \in DOMAIN t THEN t.documents ELSE <<>>

\* the slot appended for a required document the trainee has no slot for
NewSlot(rd) ==
    [key |-> rd.key, label |-> rd.label, accept |-> rd.accept,
     status |-> S_NON_DEPOSE_ACC, comment |-> <<>>, file |-> <<>>, files |-> <<>>]

\* a fill that also puts the slot back to its initial status
FilledSlot_status_reset(d, rd) ==
    [k \in DOMAIN d \cup {"label", "accept", "status", "comment", "file", "files"} |->
        IF k = "label" THEN (IF OrEmpty(Get(d, "label")) = <<>> THEN rd.label ELSE d.label)
        ELSE IF k = "files" THEN (IF "files" \in DOMAIN d THEN d.files ELSE <<>>)
        ELSE IF k = "status" THEN S_NON_DEPOSE_ACC
        ELSE IF k \in DOMAIN d THEN d[k]
        ELSE NewSlot(rd)[k]]

\* the existing slot d after its missing fields were filled in for rd
FilledSlot(d, rd) ==
    [k \in DOMAIN d \cup {"label", "accept", "status", "comment", "file", "files"} |->
        IF k = "label" THEN (IF OrEmpty(Get(d, "label")) = <<>> THEN rd.label ELSE d.label)
        ELSE IF k = "files" THEN (IF "files" \in DOMAIN d THEN d.files ELSE <<>>)
        ELSE IF k \in DOMAIN d THEN d[k]
        ELSE NewSlot(rd)[k]]

\* the slot the code writes for the required document rd, given the existing slots
EnsuredSlot(existing, rd) ==
    IF rd.key # "" /\ HasSlot(existing, rd.key)
    THEN FilledSlot(SlotOf(existing, rd.key), rd)
    ELSE NewSlot(rd)

\* a normalization that keeps the slots it found after the required ones
ensure_documents_schema_keeps_found(t, training_type) ==
    LET required == required_docs_for_training(training_type)
        existing == DocsOf(t)
    IN  Put(t, "documents", [i \in 1..Len(required) |-> EnsuredSlot(existing, required[i])] \o existing)

\* ensure_documents_schema_for_trainee: the trainee it leaves
ensure_documents_schema_for_trainee(t, training_type) ==
    LET required == required_docs_for_training(training_type)
        existing == DocsOf(t)
    IN  Put(t, "documents", [i \in 1..Len(required) |-> EnsuredSlot(existing, required[i])])

\* ensure_documents_schema_for_trainee: the value it returns (changed)
ensure_documents_changed(t, training_type) ==
    LET required == required_docs_for_training(training_type)
        existing == DocsOf(t)
    IN  \/ \E i \in 1..Len(required) :
              \/ ~HasSlot(existing, required[i].key)
              \/ EnsuredSlot(existing, required[i]) # SlotOf(existing, required[i].key)
        \/ HasSlot(existing, "dom")

-----------------------------------------------------------------------------
(* Completeness evaluator.  A Python bool function that can raise returns  *)
(* one of "True", "False", "Raise" here.                                   *)

\* bool(t.get(k)) for a flag that holds a JSON boolean when present
FlagOf(t, k) == IF k \in DOMAIN t THEN t[k] ELSE FALSE

\* the loop of dossier_is_complete over required[i..]
RECURSIVE DocsLoop(_, _, _, _, _)
DocsLoop(docs, required, i, tt, no_permis) ==
    IF i > Len(required) THEN "True"
    ELSE LET k == required[i].key IN
         IF tt = S_A3P /\ k = "permis" /\ no_permis
         THEN DocsLoop(docs, required, i + 1, tt, no_permis)
         ELSE IF ~HasSlot(docs, k) THEN "False"
         ELSE LET v == OrEmpty(Get(SlotOf(docs, k), "status")) IN
              IF ~IsStr(v) THEN "Raise"
              ELSE IF Upper(Strip(v)) # S_CONFORME THEN "False"
              ELSE DocsLoop(docs, required, i + 1, tt, no_permis)

dossier_is_complete_no_waiver(trainee, training_type) ==
    LET docs == DocsOf(trainee)
        tt == Upper(Strip(OrEmpty(training_type)))
    IN  IF docs = <<>> THEN "False"
        ELSE DocsLoop(docs, required_docs_for_training(training_type), 1, tt, FALSE)

dossier_is_complete(trainee, training_type) ==
    LET docs == DocsOf(trainee)
        tt == Upper(Strip(OrEmpty(training_type)))
        no_permis == FlagOf(trainee, "no_permis")
    IN  IF docs = <<>> THEN "False"
        ELSE DocsLoop(docs, required_docs_for_training(training_type), 1, tt, no_permis)

InfoRequired ==
    <<"birth_date", "birth_city", "birth_country", "nationality", "address", "zip_code", "city">>

Digits == {"0", "1", "2", "3", "4", "5", "6", "7", "8", "9"}

\* re.sub(r"\D+", "", s)
RECURSIVE OnlyDigits(_)
OnlyDigits(s) ==
    IF s = <<>> THEN <<>>
    ELSE IF Head(s) \in Digits THEN <<Head(s)>> \o OnlyDigits(Tail(s))
    ELSE OnlyDigits(Tail(s))

AllDigits(s, a, b) == \A i \in a..b : s[i] \in Digits

\* the pattern without its (PRE|CAR) alternative
PreNumberMatches_any_prefix(s) ==
    /\ Len(s) >= 30
    /\ s[4] = "-" /\ AllDigits(s, 5, 7)
    /\ s[8] = "-" /\ AllDigits(s, 9, 12)
    /\ s[13] = "-" /\ AllDigits(s, 14, 15)
    /\ s[16] = "-" /\ AllDigits(s, 17, 18)
    /\ s[19] = "-" /\ AllDigits(s, 20, Len(s))

\* re.match(r"^(PRE|CAR)-\d{3}-\d{4}-\d{2}-\d{2}-\d{11,}$", s)
PreNumberMatches(s) ==
    /\ Len(s) >= 30
    /\ SubSeq(s, 1, 3) \in {<<"P", "R", "E">>, <<"C", "A", "R">>}
    /\ s[4] = "-" /\ AllDigits(s, 5, 7)
    /\ s[8] = "-" /\ AllDigits(s, 9, 12)
    /\ s[13] = "-" /\ AllDigits(s, 14, 15)
    /\ s[16] = "-" /\ AllDigits(s, 17, 18)
    /\ s[19] = "-" /\ AllDigits(s, 20, Len(s))

\* the loop of infos_is_complete over InfoRequired[i..]
RECURSIVE InfoLoop(_, _)
InfoLoop(t, i) ==
    IF i > Len(InfoRequired) THEN "True"
    ELSE LET v == OrEmpty(Get(t, InfoRequired[i])) IN
         IF ~IsStr(v) THEN "Raise"
         ELSE IF Strip(v) = <<>> THEN "False"
         ELSE InfoLoop(t, i + 1)

infos_is_complete(t) ==
    LET fields == InfoLoop(t, 1)
        secu == OrEmpty(Get(t, "carte_vitale"))
        pre == OrEmpty(Get(t, "pre_number"))
    IN  IF fields # "True" THEN fields
        ELSE IF ~IsStr(secu) THEN "Raise"
        ELSE IF Len(OnlyDigits(secu)) # 15 THEN "False"
        ELSE IF ~IsStr(pre) THEN "Raise"
        ELSE IF ~PreNumberMatches(RemoveCh(Upper(Strip(pre)), " ")) THEN "False"
        ELSE "True"

dossier_is_complete_total(trainee, training_type) ==
    LET infos == infos_is_complete(trainee)
    IN  IF infos # "True" THEN infos ELSE dossier_is_complete(trainee, training_type)

\* "complete" if dossier_is_complete_total(t, training_type) else "incomplete"
DossierStatusFor(t, training_type) ==
    IF dossier_is_complete_total(t, training_type) = "True" THEN "complete" ELSE "incomplete"

-----------------------------------------------------------------------------
(* The store: load_data, save_data and the look-ups *)

NoFile == [nofile |-> TRUE]

\* {"sessions": []}
BaseStore == [sessions |-> <<>>]

\* the least element of a set of indexes, 0 when the set is empty
FirstIdx(S) == IF S = {} THEN 0 ELSE CHOOSE i \in S : \A j \in S : i <= j

\* find_session: index of the session in data.sessions, 0 for None
find_session(data, session_id) ==
    FirstIdx({i \in 1..Len(data.sessions) :
                 "id" \in DOMAIN data.sessions[i] /\ data.sessions[i].id = session_id})

_session_get(s, key, fallback) ==
    LET fr_key == CASE key = "name" -> "nom"
                    [] key = "date_start" -> "date_debut"
                    [] key = "date_end" -> "date_fin"
                    [] key = "exam_date" -> "date_examen"
                    [] key = "training_type" -> "type_formation"
                    [] key = "trainees" -> "stagiaires"
                    [] OTHER -> ""
    IN  IF key \in DOMAIN s /\ s[key] \notin {NONE, <<>>} THEN s[key]
        ELSE IF fr_key \in DOMAIN s /\ s[fr_key] \notin {NONE, <<>>} THEN s[fr_key]
        ELSE fallback

\* index of the trainee with this id in a list of trainees, 0 for None
TraineeIdx(trainees, trainee_id) ==
    FirstIdx({i \in 1..Len(trainees) : "id" \in DOMAIN trainees[i] /\ trainees[i].id = trainee_id})

-----------------------------------------------------------------------------
(* Legacy records: the value mappers and the conversion of a "stagiaire" *)

S_signee_acc == <<"s", "i", "g", "n", "e-acute", "e">>
S_signee == <<"s", "i", "g", "n", "e", "e">>
S_signed == <<"s", "i", "g", "n", "e", "d">>
S_signature == <<"s", "i", "g", "n", "a", "t", "u", "r", "e">>
S_en_cours_de_signature == <<"e", "n", " ", "c", "o", "u", "r", "s", " ", "d", "e", " ", "s", "i", "g", "n", "a", "t", "u", "r", "e">>
S_signing == <<"s", "i", "g", "n", "i", "n", "g">>
S_valide_acc == <<"v", "a", "l", "i", "d", "e-acute">>
S_valide == <<"v", "a", "l", "i", "d", "e">>
S_validated == <<"v", "a", "l", "i", "d", "a", "t", "e", "d">>
S_relance_acc == <<"r", "e", "l", "a", "n", "c", "e-acute">>
S_relance == <<"r", "e", "l", "a", "n", "c", "e">>
S_relance_e == <<"r", "e", "l", "a", "n", "c", "e-acute", "(", "e", ")">>
S_relancee == <<"r", "e", "l", "a", "n", "c", "e", "e">>
S_en_cours == <<"e", "n", " ", "c", "o", "u", "r", "s">>
S_in_progress_sp == <<"i", "n", " ", "p", "r", "o", "g", "r", "e", "s", "s">>
S_in_progress == <<"i", "n", "_", "p", "r", "o", "g", "r", "e", "s", "s">>
S_en_cours_us == <<"e", "n", "_", "c", "o", "u", "r", "s">>
S_validation == <<"v", "a", "l", "i", "d", "a", "t", "i", "o", "n">>
S_en_cours_de_validation == <<"e", "n", " ", "c", "o", "u", "r", "s", " ", "d", "e", " ", "v", "a", "l", "i", "d", "a", "t", "i", "o", "n">>
S_in_review == <<"i", "n", "_", "r", "e", "v", "i", "e", "w">>

\* sub in s
Contains(s, sub) ==
    \E i \in 0..(Len(s) - Len(sub)) : SubSeq(s, i + 1, i + Len(sub)) = sub

\* a mapper raises (AttributeError on .strip()) when the value is a truthy non-str
MapperRaises(v) == ~IsStr(OrEmpty(v))

_map_convention_to_enum(v0) ==
    LET v == Lower(Strip(OrEmpty(v0)))
    IN  IF v \in {S_signee_acc, S_signee, S_signed} THEN "signed"
        ELSE IF Contains(v, S_signature) \/ v \in {S_en_cours_de_signature, S_signing}
             THEN "signing"
        ELSE "soon"

_map_testfr_to_enum(v0) ==
    LET v == Lower(Strip(OrEmpty(v0)))
    IN  IF v \in {S_valide_acc, S_valide, S_validated} THEN "validated"
        ELSE IF v \in {S_relance_acc, S_relance, S_relance_e, S_relancee} THEN "relance"
        ELSE IF v \in {S_en_cours, S_in_progress_sp, S_in_progress, S_en_cours_us}
             THEN "in_progress"
        ELSE "soon"

_map_financement_to_enum(v0) ==
    LET v == Lower(Strip(OrEmpty(v0)))
    IN  IF v \in {S_valide_acc, S_valide, S_validated} THEN "validated"
        ELSE IF Contains(v, S_validation) \/ v \in {S_en_cours_de_validation, S_in_review}
             THEN "in_review"
        ELSE "soon"

_map_vae_to_enum(v0) ==
    LET v == Lower(Strip(OrEmpty(v0)))
    IN  IF v \in {S_valide_acc, S_valide, S_validated} THEN "validated"
        ELSE IF v \in {S_en_cours, S_in_progress, S_in_progress_sp} THEN "in_progress"
        ELSE "soon"

\* _convert_old_stagiaire_to_trainee raises when one of its mappers does
ConvertRaises(st) ==
    \/ MapperRaises(Get(st, "convention"))
    \/ MapperRaises(Get(st, "test_francais"))
    \/ MapperRaises(Get(st, "financement"))
    \/ MapperRaises(Get(st, "vae"))

\* st.get("id") or "TRN-" + uuid: a record without id gets a generated one
GeneratedId == "TRN-GEN"

_convert_old_stagiaire_to_trainee(st) ==
    [ id |-> IF "id" \in DOMAIN st /\ st.id # "" THEN st.id ELSE GeneratedId,
      convention_status |-> _map_convention_to_enum(Get(st, "convention")),
      test_fr_status |-> _map_testfr_to_enum(Get(st, "test_francais")),
      dossier_status |-> IF Get(st, "dossier") = S_complet THEN "complete" ELSE "incomplete",
      financement_status |-> _map_financement_to_enum(Get(st, "financement")),
      vae_status |-> _map_vae_to_enum(Get(st, "vae")),
      documents |-> DocsOf(st),
      public_token |-> OrEmpty(Get(st, "public_token")) ]

\* the container ensure_public_tokens and find_session_and_trainee_by_token walk:
\* session.get("trainees") or session.get("stagiaires") or []
TokenContainerKey(s) ==
    IF "trainees" \in DOMAIN s /\ s.trainees # <<>> THEN "trainees"
    ELSE IF "stagiaires" \in DOMAIN s /\ s.stagiaires # <<>> THEN "stagiaires"
    ELSE ""

\* uuid.uuid4().hex for the j-th trainee of the i-th session (fresh values)
DigitCh(n) == <<"0", "1", "2", "3", "4", "5", "6", "7", "8", "9">>[n + 1]
LoadToken(i, j) == <<"u", DigitCh(i), DigitCh(j)>>

\* ensure_public_tokens: the store it leaves
ensure_public_tokens(data) ==
    [data EXCEPT !.sessions =
        [i \in 1..Len(data.sessions) |->
            LET s == data.sessions[i]
                ck == TokenContainerKey(s)
            IN  IF ck = "" THEN s
                ELSE Put(s, ck,
                        [j \in 1..Len(s[ck]) |->
                            IF OrEmpty(Get(s[ck][j], "public_token")) = <<>>
                            THEN Put(s[ck][j], "public_token", LoadToken(i, j))
                            ELSE s[ck][j]])]]

\* ensure_public_tokens: the value it returns
ensure_public_tokens_changed(data) == ensure_public_tokens(data) # data

_session_trainees_list(s) ==
    IF "trainees" \in DOMAIN s THEN s.trainees
    ELSE IF "stagiaires" \in DOMAIN s
         THEN [j \in 1..Len(s.stagiaires) |-> _convert_old_stagiaire_to_trainee(s.stagiaires[j])]
    ELSE <<>>

\* _session_trainees_list raises when a conversion does
TraineesListRaises(s) ==
    /\ "trainees" \notin DOMAIN s
    /\ "stagiaires" \in DOMAIN s
    /\ \E j \in 1..Len(s.stagiaires) : ConvertRaises(s.stagiaires[j])

\* a loop body that leaves the old container beside the converted list
NormalizeSession_keeps_legacy(s) ==
    IF "trainees" \in DOMAIN s THEN Pop(s, "stagiaires")
    ELSE Put(s, "trainees", _session_trainees_list(s))

\* the body of the loop of normalize_sessions_schema for one session
NormalizeSession(s) ==
    IF "trainees" \in DOMAIN s THEN Pop(s, "stagiaires")
    ELSE Pop(Put(s, "trainees", _session_trainees_list(s)), "stagiaires")

\* normalize_sessions_schema: the store it leaves
normalize_sessions_schema(data) ==
    [data EXCEPT !.sessions = [i \in 1..Len(data.sessions) |-> NormalizeSession(data.sessions[i])]]

\* normalize_sessions_schema: the value it returns
normalize_sessions_changed(data) ==
    \E i \in 1..Len(data.sessions) :
        "trainees" \notin DOMAIN data.sessions[i] \/ "stagiaires" \in DOMAIN data.sessions[i]

NormalizeRaises(data) == \E i \in 1..Len(data.sessions) : TraineesListRaises(data.sessions[i])

\* what load_data returns (data) and leaves in the file (disk); saved: it called save_data
LoadResult(data, disk0, saved) == [data |-> data, disk |-> IF saved THEN data ELSE disk0, saved |-> saved]

\* load_data after ensure_public_tokens turned the file content d into d1; an
\* exception replaces the file by an empty store
LoadNormalized(d, d1) ==
    IF NormalizeRaises(d1) THEN LoadResult(BaseStore, d, TRUE)
    ELSE LoadResult(normalize_sessions_schema(d1), d, d1 # d \/ normalize_sessions_changed(d1))

\* load_data on the file content d
load_data(d) ==
    IF d = NoFile THEN LoadResult(BaseStore, d, TRUE)
    ELSE LoadNormalized(d, ensure_public_tokens(d))

-----------------------------------------------------------------------------
(* Uploaded files *)

X_pdf == <<".", "p", "d", "f">>
X_png == <<".", "p", "n", "g">>
X_jpg == <<".", "j", "p", "g">>
X_jpeg == <<".", "j", "p", "e", "g">>
X_doc == <<".", "d", "o", "c">>
X_docx == <<".", "d", "o", "c", "x">>
X_webp == <<".", "w", "e", "b", "p">>
X_exe == <<".", "e", "x", "e">>

ALLOWED_EXT == {X_pdf, X_png, X_jpg, X_jpeg, X_doc, X_docx, X_webp}

\* _store_file raises ValueError("extension_not_allowed")
StoreFileRaises(ext) == ext # <<>> /\ ext \notin ALLOWED_EXT

\* _tokenize_path(_store_file(...)) for the n-th stored file: the stored name is
\* a fresh uuid, so the reference differs from every earlier one
FileToken(n) == <<"f", DigitCh(n)>>

\* s.split(",")
RECURSIVE SplitComma(_)
SplitComma(s) ==
    IF ~InSeq(",", s) THEN <<s>>
    ELSE LET i == CHOOSE i \in 1..Len(s) : s[i] = "," /\ \A j \in 1..(i - 1) : s[j] # ","
         IN  <<SubSeq(s, 1, i - 1)>> \o SplitComma(SubSeq(s, i + 1, Len(s)))

\* [a.strip().lower() for a in accept.split(",") if a.strip()]
AcceptList(parts) ==
    {Lower(Strip(parts[i])) : i \in {j \in 1..Len(parts) : Strip(parts[j]) # <<>>}}

AcceptsIn(acc, ext) ==
    IF S_application_pdf \in acc THEN ext = X_pdf
    ELSE IF \E a \in acc : Len(a) >= 6 /\ SubSeq(a, 1, 6) = S_image_
         THEN ext \in {X_jpg, X_jpeg, X_png, X_webp}
    ELSE ext \in ALLOWED_EXT

\* _accepts_file of public_doc_upload, for the slot's accept string
_accepts_file(accept, ext) == AcceptsIn(AcceptList(SplitComma(accept)), ext)

-----------------------------------------------------------------------------
(* Document slots: submit, review, clear *)

\* index of the first slot with this key, 0 when there is none
SlotIdx(docs, doc_key) == FirstIdx({i \in 1..Len(docs) : KeyOf(docs[i]) = doc_key})

\* the submit loop body raises AttributeError on a truthy non-str status
SubmitRaises(d) == ~IsStr(OrEmpty(Get(d, "status")))

\* d.get("files"), [] when the slot has none; the field holds a list when present
FilesOf(d) == IF "files" \in DOMAIN d THEN d.files ELSE <<>>

\* a submit that starts the list over
MergedFiles_overwrite(cur_files, old) == <<>>

\* cur_files once the legacy single reference `old` was merged in
MergedFiles(cur_files, old) ==
    IF old # <<>> /\ ~InSeq(old, cur_files) THEN Append(cur_files, old) ELSE cur_files

\* a submit that marks the slot compliant
SubmittedStatus_conforme(st) == S_CONFORME

\* the status a submit leaves on a slot whose status was st
SubmittedStatus(st) ==
    IF Upper(Strip(OrEmpty(st))) \in {<<>>, S_NON_DEPOSE_ACC, S_NON_DEPOSE, S_NON_DEPOSE_US}
    THEN S_A_CONTROLER_ACC
    ELSE IF st = S_A_CONTROLER THEN S_A_CONTROLER_ACC
    ELSE st

\* the slot d with cur_files written to it and its status moved by the submit
SubmittedSlot(d, cur_files) ==
    [k \in DOMAIN d \cup {"files", "file", "status"} |->
        IF k = "files" THEN cur_files
        ELSE IF k = "file" THEN cur_files[1]
        ELSE IF k = "status" THEN SubmittedStatus(Get(d, "status"))
        ELSE d[k]]

\* a submit loop body that puts every slot back under review
SubmitToSlot_always_review(d, token) ==
    Put(SubmittedSlot(d, Append(MergedFiles(FilesOf(d), Strip(OrEmpty(Get(d, "file")))), token)),
        "status", S_A_CONTROLER_ACC)

\* the submit loop body of admin_upload_doc_file and public_doc_upload
SubmitToSlot(d, token) ==
    SubmittedSlot(d, Append(MergedFiles(FilesOf(d), Strip(OrEmpty(Get(d, "file")))), token))

\* a reset that also empties the comment
ClearSlot_comment_emptied(d) ==
    Put(Put(Put(Put(d, "file", <<>>), "files", <<>>), "status", S_NON_DEPOSE_ACC), "comment", <<>>)

\* the reset of admin_delete_doc_file: the comment is kept
ClearSlot(d) ==
    Put(Put(Put(d, "file", <<>>), "files", <<>>), "status", S_NON_DEPOSE_ACC)

\* d[field] = value of api_docs_update
ReviewSlot(d, field, value) == Put(d, field, value)

\* [x for x in files if x]
RECURSIVE Truthy(_)
Truthy(files) ==
    IF files = <<>> THEN <<>>
    ELSE IF Head(files) = <<>> THEN Truthy(Tail(files))
    ELSE <<Head(files)>> \o Truthy(Tail(files))

\* the template fields admin_trainee_page writes on a slot
AdminViewSlot(d) ==
    Put(Put(d, "file_token", OrEmpty(Get(d, "file"))), "file_tokens", Truthy(FilesOf(d)))

\* the template field public_trainee_space writes on a slot
PublicViewSlot(d) == Put(d, "file_token", OrEmpty(Get(d, "file")))

-----------------------------------------------------------------------------
(* Request handlers.  Each *_body is the handler after its load_data(), on  *)
(* the store `data` that load_data returned: res is the outcome ("ok",      *)
(* "not_found", "rejected" for an early return without save, "error" for an *)
(* uncaught exception), data the store passed to save_data when save is     *)
(* TRUE, stored whether _store_file wrote a file, tid the trainee served.   *)
(* A handler is written as a chain of operators, one per stage of its code: *)
(* *_body looks the trainee up, *_found runs on the trainee found, and      *)
(* *_ensured runs after ensure_documents_schema_for_trainee.                *)

\* [x for x in seq if x.get("id") != id]
RECURSIVE WithoutId(_, _)
WithoutId(seq, id) ==
    IF seq = <<>> THEN <<>>
    ELSE IF Get(Head(seq), "id") = id THEN WithoutId(Tail(seq), id)
    ELSE <<Head(seq)>> \o WithoutId(Tail(seq), id)

Outcome(res, data, save, stored, tid) ==
    [res |-> res, data |-> data, save |-> save, stored |-> stored, tid |-> tid]

NotFound(data) == Outcome("not_found", data, FALSE, FALSE, "")

\* the result of a look-up: si and ti index the session and the trainee (0 when
\* not found), trainees is the list the trainee is in
NotLocated == [si |-> 0, ti |-> 0, trainees |-> <<>>, training_type |-> <<>>]

Located(data, si, ti, trainees) ==
    [si |-> si, ti |-> ti, trainees |-> trainees,
     training_type |-> _session_get(data.sessions[si], "training_type", <<>>)]

LocateIn(data, si, trainees, trainee_id) ==
    Located(data, si, TraineeIdx(trainees, trainee_id), trainees)

\* s = find_session(data, session_id); trainees = _session_trainees_list(s);
\* t = next((x for x in trainees if x.get("id") == trainee_id), None)
Locate(data, session_id, trainee_id) ==
    IF find_session(data, session_id) = 0 THEN NotLocated
    ELSE LocateIn(data, find_session(data, session_id),
                  _session_trainees_list(data.sessions[find_session(data, session_id)]),
                  trainee_id)

\* find_session_and_trainee_by_token: <<session index, trainee index>>, <<0, 0>> for None
find_session_and_trainee_by_token(data, token0) ==
    LET token == Strip(OrEmpty(token0))
        Hit(i, j) ==
            LET s == data.sessions[i]
                ck == TokenContainerKey(s)
            IN  /\ ck # ""
                /\ j \in 1..Len(s[ck])
                /\ Strip(OrEmpty(Get(s[ck][j], "public_token"))) = token
        Width(i) == LET ck == TokenContainerKey(data.sessions[i])
                    IN  IF ck = "" THEN 0 ELSE Len(data.sessions[i][ck])
        Hits == UNION {{<<i, j>> : j \in {k \in 1..Width(i) : Hit(i, k)}} :
                          i \in 1..Len(data.sessions)}
    IN  IF token = <<>> \/ Hits = {} THEN <<0, 0>>
        ELSE CHOOSE ij \in Hits :
                \A kl \in Hits : ij[1] < kl[1] \/ (ij[1] = kl[1] /\ ij[2] <= kl[2])

\* s, t = find_session_and_trainee_by_token(data, token): t is an element of the
\* container of s that holds trainees
LocateAt(data, st) ==
    IF st = <<0, 0>> THEN NotLocated
    ELSE Located(data, st[1], st[2],
                 data.sessions[st[1]][TokenContainerKey(data.sessions[st[1]])])

LocateByToken(data, token) == LocateAt(data, find_session_and_trainee_by_token(data, token))

\* s["trainees"] = trainees; s.pop("stagiaires", None)
WithTrainees(data, si, trainees) ==
    [data EXCEPT !.sessions[si] = Pop(Put(@, "trainees", trainees), "stagiaires")]

\* the same, with the trainee that was looked up replaced by t
WithTrainee(data, at, t) == WithTrainees(data, at.si, [at.trainees EXCEPT ![at.ti] = t])

\* t["dossier_status"] = "complete" if <ev> else "incomplete", then the save
SaveEvaluated(data, at, t, ev, stored) ==
    IF ev = "Raise" THEN Outcome("error", data, FALSE, stored, Get(t, "id"))
    ELSE Outcome("ok",
                 WithTrainee(data, at,
                     Put(t, "dossier_status", IF ev = "True" THEN "complete" ELSE "incomplete")),
                 TRUE, stored, Get(t, "id"))

\* a save that keeps the dossier_status t came with
RecomputeAndSave_kept(data, at, t, stored) ==
    Outcome("ok", WithTrainee(data, at, t), TRUE, stored, Get(t, "id"))

RecomputeAndSave(data, at, t, stored) ==
    SaveEvaluated(data, at, t, dossier_is_complete_total(t, at.training_type), stored)

api_create_session_body(data, session_id, training_type0) ==
    IF Strip(OrEmpty(training_type0)) = <<>> THEN Outcome("rejected", data, FALSE, FALSE, "")
    ELSE Outcome("ok",
                 [data EXCEPT !.sessions =
                     <<[id |-> session_id, training_type |-> Strip(OrEmpty(training_type0)),
                        trainees |-> <<>>]>> \o @],
                 TRUE, FALSE, "")

api_delete_session_body(data, session_id) ==
    Outcome("ok",
            [data EXCEPT !.sessions = WithoutId(@, session_id)],
            TRUE, FALSE, "")

\* the record api_create_trainee builds
NewTrainee(trainee_id, public_token, training_type) ==
    [ id |-> trainee_id,
      convention_status |-> "soon",
      test_fr_status |-> "soon",
      dossier_status |-> "incomplete",
      financement_status |-> "soon",
      vae_status |-> IF training_type = S_DIRIGEANT_VAE THEN "soon" ELSE "",
      public_token |-> public_token,
      no_permis |-> FALSE,
      documents |-> <<>> ]

\* trainees.insert(0, t) with the evaluated dossier_status, then the save
InsertTrainee(data, si, t, ev) ==
    IF ev = "Raise" THEN Outcome("error", data, FALSE, FALSE, t.id)
    ELSE Outcome("ok",
                 WithTrainees(data, si,
                     <<Put(t, "dossier_status", IF ev = "True" THEN "complete" ELSE "incomplete")>>
                         \o _session_trainees_list(data.sessions[si])),
                 TRUE, FALSE, t.id)

api_create_trainee_ensured(data, si, t, training_type) ==
    InsertTrainee(data, si, t, dossier_is_complete_total(t, training_type))

api_create_trainee_found(data, si, trainee_id, public_token, training_type) ==
    api_create_trainee_ensured(data, si,
        ensure_documents_schema_for_trainee(
            NewTrainee(trainee_id, public_token, training_type), training_type),
        training_type)

api_create_trainee_body(data, session_id, trainee_id, public_token) ==
    IF find_session(data, session_id) = 0 THEN NotFound(data)
    ELSE api_create_trainee_found(data, find_session(data, session_id), trainee_id, public_token,
             _session_get(data.sessions[find_session(data, session_id)], "training_type", <<>>))

UpdateAllowed ==
    {"convention_status", "test_fr_status", "dossier_status", "financement_status",
     "vae_status", "comment", "financement_comment", "vae_status_label", "cnaps", "no_permis"}

\* api_update_trainee without the `allowed` filter of line 1087
UpdatedTrainee_any_key(t, payload) ==
    [k \in DOMAIN t \cup DOMAIN payload |-> IF k \in DOMAIN payload THEN payload[k] ELSE t[k]]

\* t after the allowed keys of the payload were copied into it
UpdatedTrainee(t, payload) ==
    [k \in DOMAIN t \cup (DOMAIN payload \cap UpdateAllowed) |->
        IF k \in DOMAIN payload \cap UpdateAllowed THEN payload[k] ELSE t[k]]

\* api_update_trainee without line 1094: the payload's dossier_status is kept
api_update_trainee_found_kept(data, at, payload) ==
    IF at.ti = 0 THEN NotFound(data)
    ELSE Outcome("ok", WithTrainee(data, at, UpdatedTrainee(at.trainees[at.ti], payload)),
                 TRUE, FALSE, Get(at.trainees[at.ti], "id"))

api_update_trainee_found(data, at, payload) ==
    IF at.ti = 0 THEN NotFound(data)
    ELSE RecomputeAndSave(data, at, UpdatedTrainee(at.trainees[at.ti], payload), FALSE)

api_update_trainee_body(data, session_id, trainee_id, payload) ==
    api_update_trainee_found(data, Locate(data, session_id, trainee_id), payload)

api_delete_trainee_body(data, session_id, trainee_id) ==
    IF find_session(data, session_id) = 0 THEN NotFound(data)
    ELSE Outcome("ok",
                 WithTrainees(data, find_session(data, session_id),
                     WithoutId(_session_trainees_list(data.sessions[find_session(data, session_id)]),
                               trainee_id)),
                 TRUE, FALSE, trainee_id)

\* t after the loop of api_docs_update wrote the slot at index di (0: no slot has the key)
ReviewedTrainee(t, di, field, value) ==
    IF di = 0 THEN t
    ELSE Put(t, "documents", [DocsOf(t) EXCEPT ![di] = ReviewSlot(@, field, value)])

api_docs_update_found(data, at, doc_key, field, value) ==
    IF at.ti = 0 THEN NotFound(data)
    ELSE IF field \notin {"status", "comment"}
         THEN Outcome("rejected", data, FALSE, FALSE, Get(at.trainees[at.ti], "id"))
    ELSE RecomputeAndSave(data, at,
             ReviewedTrainee(at.trainees[at.ti], SlotIdx(DocsOf(at.trainees[at.ti]), doc_key),
                             field, value),
             FALSE)

api_docs_update_body(data, session_id, trainee_id, doc_key, field, value) ==
    api_docs_update_found(data, Locate(data, session_id, trainee_id), doc_key, field, value)

\* t after the submit loop wrote the slot at index di (0: no slot has the key)
SubmittedTrainee(t, di, token) ==
    IF di = 0 THEN t
    ELSE Put(t, "documents", [DocsOf(t) EXCEPT ![di] = SubmitToSlot(@, token)])

\* the part of both upload handlers after the file was stored under `token`
SubmitAndSave(data, at, t, di, token) ==
    IF di # 0 /\ SubmitRaises(DocsOf(t)[di]) THEN Outcome("error", data, FALSE, TRUE, Get(t, "id"))
    ELSE RecomputeAndSave(data, at, SubmittedTrainee(t, di, token), TRUE)

\* ext is the extension of the uploaded file's name, NONE when no file was sent
admin_upload_doc_file_ensured(data, at, t, doc_key, ext, token) ==
    IF doc_key \notin allowed_doc_keys_for_training(at.training_type)
    THEN Outcome("rejected", data, FALSE, FALSE, Get(t, "id"))
    ELSE IF ext = NONE \/ StoreFileRaises(ext)
    THEN Outcome("rejected", data, FALSE, FALSE, Get(t, "id"))
    ELSE SubmitAndSave(data, at, t, SlotIdx(DocsOf(t), doc_key), token)

admin_upload_doc_file_found(data, at, doc_key, ext, token) ==
    IF at.ti = 0 THEN NotFound(data)
    ELSE admin_upload_doc_file_ensured(data, at,
             ensure_documents_schema_for_trainee(at.trainees[at.ti], at.training_type),
             doc_key, ext, token)

admin_upload_doc_file_body(data, session_id, trainee_id, doc_key, ext, token) ==
    admin_upload_doc_file_found(data, Locate(data, session_id, trainee_id), doc_key, ext, token)

\* t after the reset of the slot at index di
ClearedTrainee(t, di) == Put(t, "documents", [DocsOf(t) EXCEPT ![di] = ClearSlot(@)])

admin_delete_doc_file_ensured(data, at, t, doc_key) ==
    IF doc_key \notin allowed_doc_keys_for_training(at.training_type)
          \/ SlotIdx(DocsOf(t), doc_key) = 0
    THEN Outcome("rejected", data, FALSE, FALSE, Get(t, "id"))
    ELSE RecomputeAndSave(data, at, ClearedTrainee(t, SlotIdx(DocsOf(t), doc_key)), FALSE)

admin_delete_doc_file_found(data, at, doc_key) ==
    IF at.ti = 0 THEN NotFound(data)
    ELSE admin_delete_doc_file_ensured(data, at,
             ensure_documents_schema_for_trainee(at.trainees[at.ti], at.training_type), doc_key)

admin_delete_doc_file_body(data, session_id, trainee_id, doc_key) ==
    admin_delete_doc_file_found(data, Locate(data, session_id, trainee_id), doc_key)

InfosAllowed ==
    {"carte_vitale", "pre_number", "birth_date", "birth_city", "birth_country",
     "nationality", "address", "zip_code", "city", "no_permis"}

\* the value public_infos_update stores for payload item (k, v); Skip when it stores none
Skip == <<"<skip>">>
InfoValue(k, v) ==
    IF v = NONE THEN Skip
    ELSE IF IsStr(v) THEN (IF Strip(v) = <<>> THEN Skip ELSE Strip(v))
    ELSE v

\* the keys of the payload that public_infos_update writes
InfoKeys(payload) ==
    {k \in DOMAIN payload \cap InfosAllowed :
        k = "no_permis" \/ InfoValue(k, payload[k]) # Skip}

\* t after the loop of public_infos_update over the payload
InformedTrainee(t, payload) ==
    [k \in DOMAIN t \cup InfoKeys(payload) |->
        IF k \notin InfoKeys(payload) THEN t[k]
        ELSE IF k = "no_permis" THEN payload[k]
        ELSE InfoValue(k, payload[k])]

public_infos_update_found(data, at, payload) ==
    IF at.ti = 0 THEN NotFound(data)
    ELSE RecomputeAndSave(data, at, InformedTrainee(at.trainees[at.ti], payload), FALSE)

public_infos_update_body(data, token, payload) ==
    public_infos_update_found(data, LocateByToken(data, token), payload)

public_doc_upload_slot(data, at, t, di, ext, new_token) ==
    IF ~_accepts_file(Lower(OrEmpty(Get(DocsOf(t)[di], "accept"))), ext)
    THEN Outcome("rejected", data, FALSE, FALSE, Get(t, "id"))
    ELSE SubmitAndSave(data, at, t, di, new_token)

public_doc_upload_ensured(data, at, t, doc_key, ext, new_token) ==
    IF doc_key \notin allowed_doc_keys_for_training(at.training_type)
          \/ ext = NONE \/ SlotIdx(DocsOf(t), doc_key) = 0
    THEN Outcome("rejected", data, FALSE, FALSE, Get(t, "id"))
    ELSE public_doc_upload_slot(data, at, t, SlotIdx(DocsOf(t), doc_key), ext, new_token)

public_doc_upload_found(data, at, doc_key, ext, new_token) ==
    IF at.ti = 0 THEN NotFound(data)
    ELSE public_doc_upload_ensured(data, at,
             ensure_documents_schema_for_trainee(at.trainees[at.ti], at.training_type),
             doc_key, ext, new_token)

public_doc_upload_body(data, token, doc_key, ext, new_token) ==
    public_doc_upload_found(data, LocateByToken(data, token), doc_key, ext, new_token)

\* t.setdefault("deliverables", {}), the template fields of the slots, and
\* t["no_permis"] = bool(t.get("no_permis"))
AdminViewedTrainee(t) ==
    [k \in DOMAIN t \cup {"deliverables", "no_permis"} |->
        IF k = "documents" THEN [i \in 1..Len(t.documents) |-> AdminViewSlot(t.documents[i])]
        ELSE IF k = "no_permis" THEN FlagOf(t, "no_permis")
        ELSE IF k \in DOMAIN t THEN t[k]
        ELSE <<>>]

admin_trainee_page_found(data, at) ==
    IF at.ti = 0 THEN NotFound(data)
    ELSE RecomputeAndSave(data, at,
             AdminViewedTrainee(
                 ensure_documents_schema_for_trainee(at.trainees[at.ti], at.training_type)),
             FALSE)

admin_trainee_page_body(data, session_id, trainee_id) ==
    admin_trainee_page_found(data, Locate(data, session_id, trainee_id))

\* the template field of the slots
PublicViewedTrainee(t) ==
    Put(t, "documents", [i \in 1..Len(t.documents) |-> PublicViewSlot(t.documents[i])])

public_trainee_space_found(data, at) ==
    IF at.ti = 0 THEN NotFound(data)
    ELSE Outcome("ok",
                 WithTrainee(data, at,
                     PublicViewedTrainee(
                         ensure_documents_schema_for_trainee(at.trainees[at.ti],
                                                             at.training_type))),
                 TRUE, FALSE, Get(at.trainees[at.ti], "id"))

public_trainee_space_body(data, token) ==
    public_trainee_space_found(data, LocateByToken(data, token))

\* the CNAPS and hosting look-ups of the page answer nothing for the trainees
\* of the model, which carry no name and no e-mail address
admin_trainees_body(data, session_id) ==
    IF find_session(data, session_id) = 0 THEN NotFound(data)
    ELSE Outcome("ok",
                 WithTrainees(data, find_session(data, session_id),
                     _session_trainees_list(data.sessions[find_session(data, session_id)])),
                 TRUE, FALSE, "")

-----------------------------------------------------------------------------
(* Bounds and inputs of the requests *)

\* number of files _store_file may write in a run
MaxUploads == 1

SessionIds == {"S1"}
TraineeIds == {"TRN-1"}
PublicTokens == {<<"t", "1">>}
TypeInputs == {S_APS}
UploadKeys == {"id", "permis", "dom"}
ClearKeys == {"id", "permis", "dom"}
FileInputs == {NONE, X_pdf, X_exe}

CatalogKeys ==
    {"id", "photo", "carte_vitale_doc", "cnaps_doc", "permis", "certif_med", "assurance_rc"}

\* a status value outside the catalogue of slot states
S_EN_ATTENTE == <<"E", "N", " ", "A", "T", "T", "E", "N", "T", "E">>

\* payloads {key, field, value} of api_docs_update
ReviewInputs ==
    {<<"id", "status", v>> : v \in {S_CONFORME, S_NON_CONFORME, S_EN_ATTENTE, NONSTR}}
    \cup {<<k, "status", S_CONFORME>> : k \in (CatalogKeys \ {"id"}) \cup {"dom"}}
    \cup {<<"id", "comment", <<"f", "l", "o", "u">>>>, <<"id", "label", <<"x">>>>}

S_PRE_OK ==
    <<"p", "r", "e", "-", "0", "8", "3", "-", "2", "0", "2", "5", "-", "1", "2", "-", "0", "1",
      "-", " ", "2", "0", "2", "5", "0", "0", "0", "0", "0", "0", "0">>
S_SECU_15 ==
    <<"1", " ", "8", "5", " ", "0", "5", " ", "7", "8", " ", "0", "0", "6", " ", "0", "8", "4",
      " ", "3", "6">>

ValidProfile ==
    [ birth_date |-> <<"1", "/", "1">>, birth_city |-> <<"N", "i", "c", "e", " ">>,
      birth_country |-> <<"F", "R">>, nationality |-> <<"F", "R">>,
      address |-> <<"1", " ", "r", "u", "e">>, zip_code |-> <<"8", "3">>,
      city |-> <<"N", "i", "c", "e">>,
      carte_vitale |-> S_SECU_15, pre_number |-> S_PRE_OK ]

\* payloads of public_infos_update
InfoPayloads ==
    { ValidProfile,
      [city |-> <<" ">>, zip_code |-> NONE, public_token |-> <<"t", "2">>],
      [birth_date |-> NONSTR] }

\* payloads of api_update_trainee
UpdatePayloads ==
    { [dossier_status |-> "complete"],
      [dossier_status |-> "incomplete", id |-> "TRN-9", public_token |-> <<"t", "2">>] }

-----------------------------------------------------------------------------
(* Requests served one at a time *)

NoRequest == [op |-> "", tid |-> "", key |-> "", res |-> ""]

\* public_token values present in the store
UsedTokens(d) ==
    IF d = NoFile THEN {}
    ELSE UNION {{Get(_session_trainees_list(d.sessions[i])[j], "public_token") :
                    j \in 1..Len(_session_trainees_list(d.sessions[i]))} :
                  i \in 1..Len(d.sessions)}

UsedTraineeIds(d) ==
    IF d = NoFile THEN {}
    ELSE UNION {{Get(_session_trainees_list(d.sessions[i])[j], "id") :
                    j \in 1..Len(_session_trainees_list(d.sessions[i]))} :
                  i \in 1..Len(d.sessions)}

UsedSessionIds(d) ==
    IF d = NoFile THEN {} ELSE {Get(d.sessions[i], "id") : i \in 1..Len(d.sessions)}

\* the requests of the document life cycle, which `last` records
Tracked ==
    {"api_update_trainee", "admin_upload_doc_file", "public_doc_upload", "admin_delete_doc_file"}

\* a handler ran: load_data(), then its body r, which saved or not; last is the
\* request just served when it is a tracked one that succeeded
Serve(op, key, r) ==
    /\ disk' = IF r.save THEN r.data ELSE load_data(disk).disk
    /\ nfiles' = IF r.stored THEN nfiles + 1 ELSE nfiles
    /\ last' = IF r.res = "ok" /\ op \in Tracked
               THEN [op |-> op, tid |-> r.tid, key |-> key, res |-> "ok"]
               ELSE NoRequest
    /\ pc' = "served"
    /\ UNCHANGED <<reqs, inp, out>>

Loaded == load_data(disk).data

api_create_session ==
    \E sid \in SessionIds \ UsedSessionIds(disk), tt \in TypeInputs :
        Serve("api_create_session", "", api_create_session_body(Loaded, sid, tt))

api_delete_session ==
    \E sid \in SessionIds : Serve("api_delete_session", "", api_delete_session_body(Loaded, sid))

api_create_trainee ==
    \E sid \in SessionIds, tid \in TraineeIds \ UsedTraineeIds(disk),
       tok \in PublicTokens \ UsedTokens(disk) :
        Serve("api_create_trainee", "", api_create_trainee_body(Loaded, sid, tid, tok))

api_update_trainee ==
    \E sid \in SessionIds, tid \in TraineeIds, payload \in UpdatePayloads :
        Serve("api_update_trainee", "", api_update_trainee_body(Loaded, sid, tid, payload))

api_delete_trainee ==
    \E sid \in SessionIds, tid \in TraineeIds :
        Serve("api_delete_trainee", "", api_delete_trainee_body(Loaded, sid, tid))

api_docs_update ==
    \E sid \in SessionIds, tid \in TraineeIds, p \in ReviewInputs :
        Serve("api_docs_update", p[1], api_docs_update_body(Loaded, sid, tid, p[1], p[2], p[3]))

admin_upload_doc_file ==
    /\ nfiles < MaxUploads
    /\ \E sid \in SessionIds, tid \in TraineeIds, key \in UploadKeys, ext \in FileInputs :
          Serve("admin_upload_doc_file", key,
                admin_upload_doc_file_body(Loaded, sid, tid, key, ext, FileToken(nfiles + 1)))

admin_delete_doc_file ==
    \E sid \in SessionIds, tid \in TraineeIds, key \in ClearKeys :
        Serve("admin_delete_doc_file", key, admin_delete_doc_file_body(Loaded, sid, tid, key))

public_infos_update ==
    \E tok \in PublicTokens, payload \in InfoPayloads :
        Serve("public_infos_update", "", public_infos_update_body(Loaded, tok, payload))

public_doc_upload ==
    /\ nfiles < MaxUploads
    /\ \E tok \in PublicTokens, key \in UploadKeys, ext \in FileInputs :
          Serve("public_doc_upload", key,
                public_doc_upload_body(Loaded, tok, key, ext, FileToken(nfiles + 1)))

admin_trainee_page ==
    \E sid \in SessionIds, tid \in TraineeIds :
        Serve("admin_trainee_page", "", admin_trainee_page_body(Loaded, sid, tid))

public_trainee_space ==
    \E tok \in PublicTokens :
        Serve("public_trainee_space", "", public_trainee_space_body(Loaded, tok))

admin_trainees ==
    \E sid \in SessionIds : Serve("admin_trainees", "", admin_trainees_body(Loaded, sid))

\* admin_sessions: the page only reads the store, through load_data
admin_sessions == Serve("admin_sessions", "", Outcome("ok", Loaded, FALSE, FALSE, ""))

Idle == reqs = <<>> /\ inp = <<>> /\ out = <<>> /\ pc = "idle"

Init == disk = NoFile /\ nfiles = 0 /\ last = NoRequest /\ Idle

Next ==
    \/ api_create_session
    \/ api_delete_session
    \/ api_create_trainee
    \/ api_update_trainee
    \/ api_delete_trainee
    \/ api_docs_update
    \/ admin_upload_doc_file
    \/ admin_delete_doc_file
    \/ public_infos_update
    \/ public_doc_upload
    \/ admin_trainee_page
    \/ public_trainee_space
    \/ admin_trainees
    \/ admin_sessions

Spec == Init /\ [][Next]_vars

-----------------------------------------------------------------------------
(* Properties of the served store *)

\* the elements of a list
Range(seq) == {seq[i] : i \in 1..Len(seq)}

\* the trainees of session s, each with the session's id and training type
PersistedIn(s) ==
    {[sid |-> Get(s, "id"), tt |-> _session_get(s, "training_type", <<>>), t |-> t] :
        t \in Range(_session_trainees_list(s))}

\* the trainees of store d
PersistedOf(d) == IF d = NoFile THEN {} ELSE UNION {PersistedIn(s) : s \in Range(d.sessions)}

\* the trainees of the persisted store
Persisted == PersistedOf(disk)

\* the slots with key k of the trainees with id tid in store d
StoredSlots(d, tid, k) ==
    UNION {{x \in Range(DocsOf(p.t)) : KeyOf(x) = k} :
              p \in {q \in PersistedOf(d) : Get(q.t, "id") = tid}}

StoredSlot(d, tid, k) == CHOOSE x \in StoredSlots(d, tid, k) : TRUE

\* every slot of every persisted trainee
AllSlots == UNION {{DocsOf(p.t)[n] : n \in 1..Len(DocsOf(p.t))} : p \in Persisted}

UploadOps == {"admin_upload_doc_file", "public_doc_upload"}

\* C1: from an empty store, every persisted trainee's dossier_status is
\* "complete" exactly when dossier_is_complete_total is true for the trainee
\* and its session's training type; a dossier_status sent to
\* api_update_trainee is therefore never kept unless it is the evaluator's
\* result.
C1_DossierStatusIsEvaluated ==
    \A p \in Persisted :
        /\ dossier_is_complete_total(p.t, p.tt) \in {"True", "False"}
        /\ p.t.dossier_status \in {"complete", "incomplete"}
        /\ (p.t.dossier_status = "complete") <=> (dossier_is_complete_total(p.t, p.tt) = "True")

\* a complete dossier right after an accepted api_update_trainee
C1_Witness ==
    /\ last.op = "api_update_trainee" /\ last.res = "ok"
    /\ \E p \in Persisted : p.t.id = last.tid /\ p.t.dossier_status = "complete"

\* an accepted upload was just served: it stored file number nfiles'
SubmitStep ==
    /\ last'.op \in UploadOps /\ last'.res = "ok"
    /\ nfiles' = nfiles + 1
    /\ StoredSlots(disk, last'.tid, last'.key) # {}

\* what a submit that stored `token` does to a slot: before, after
SubmitEffect(before, after, token) ==
    /\ before.status = S_NON_DEPOSE_ACC => after.status = S_A_CONTROLER_ACC
    /\ before.status \in {S_CONFORME, S_NON_CONFORME} => after.status = before.status
    /\ after.files = Append(before.files, token)

\* C3: an accepted submit on a slot whose status is "NON DÉPOSÉ" sets it to
\* "A CONTRÔLER"; on a slot whose status is "CONFORME" or "NON CONFORME" it
\* leaves the status as it was; in both cases the new file reference is
\* appended to the slot's files.
C3_SubmitTransition ==
    [][SubmitStep =>
          SubmitEffect(StoredSlot(disk, last'.tid, last'.key),
                       StoredSlot(disk', last'.tid, last'.key), FileToken(nfiles'))]_vars

\* a slot that is still "CONFORME" right after an upload added a file to it
C3_Witness ==
    /\ last.op \in UploadOps /\ last.res = "ok"
    /\ \E d \in StoredSlots(disk, last.tid, last.key) :
          d.status = S_CONFORME /\ d.files # <<>>

SlotStates == {S_NON_DEPOSE_ACC, S_A_CONTROLER_ACC, S_CONFORME, S_NON_CONFORME}

\* C5: a review sets a slot's status only to "CONFORME" or "NON CONFORME", so
\* every slot's status is always one of "NON DÉPOSÉ", "A CONTRÔLER",
\* "CONFORME", "NON CONFORME".
C5_StatusInFourStates == \A d \in AllSlots : Get(d, "status") \in SlotStates

\* C6: a review does not change a slot that is still "NON DÉPOSÉ", so no slot
\* is "CONFORME" or "NON CONFORME" while its list of files is empty.
C6_NoVerdictWithoutFile ==
    \A d \in AllSlots : Get(d, "status") \in {S_CONFORME, S_NON_CONFORME} => d.files # <<>>

\* an accepted clear was just served
ClearStep ==
    /\ last'.op = "admin_delete_doc_file" /\ last'.res = "ok"
    /\ StoredSlots(disk, last'.tid, last'.key) # {}

\* clear is served without error for every catalogue slot of every trainee
ClearNeverFails ==
    \A p \in Persisted : \A k \in allowed_doc_keys_for_training(p.tt) :
        admin_delete_doc_file_body(Loaded, p.sid, p.t.id, k).res = "ok"

\* the slot a clear leaves
Cleared(after) ==
    after.files = <<>> /\ after.file = <<>> /\ after.status = S_NON_DEPOSE_ACC

\* C7 (as amended): clear on a catalogue slot leaves the slot with no files, an
\* empty primary file reference and status "NON DÉPOSÉ", and leaves the
\* reviewer comment as it was, whatever the slot's previous state; it is served
\* without error, also when the slot is already empty.
C7_ClearKeepsComment ==
    /\ []ClearNeverFails
    /\ [][ClearStep =>
            /\ Cleared(StoredSlot(disk', last'.tid, last'.key))
            /\ StoredSlot(disk', last'.tid, last'.key).comment
                  = StoredSlot(disk, last'.tid, last'.key).comment]_vars

\* a cleared slot that still carries the reviewer's comment
C7_Witness ==
    /\ last.op = "admin_delete_doc_file" /\ last.res = "ok"
    /\ \E d \in StoredSlots(disk, last.tid, last.key) :
          d.files = <<>> /\ d.status = S_NON_DEPOSE_ACC /\ d.comment # <<>>

\* C7 as stated: clear also leaves the reviewer comment empty
C7_ClearEmptiesComment ==
    /\ []ClearNeverFails
    /\ [][ClearStep =>
            /\ Cleared(StoredSlot(disk', last'.tid, last'.key))
            /\ StoredSlot(disk', last'.tid, last'.key).comment = <<>>]_vars

-----------------------------------------------------------------------------
(* The resolver on caller-supplied strings *)

\* longest token given to the resolver
MaxTokenLen == 4

PathChars == {"/", ".", "\\", "e"}

PathIdle == disk = NoFile /\ nfiles = 0 /\ last = NoRequest /\ reqs = <<>>

InitPath ==
    /\ PathIdle
    /\ inp \in StringsUpTo(PathChars, MaxTokenLen) \cup {NONE}
    /\ out = <<>>
    /\ pc = "start"

\* a direct call of _detokenize_path(inp)
detokenize ==
    /\ pc = "start"
    /\ out' = _detokenize_path(inp)
    /\ pc' = "resolved"
    /\ UNCHANGED <<disk, nfiles, last, reqs, inp>>

\* GET /admin/uploads/<path:path>: the route's path never starts with "/";
\* whether the resolved file exists is the file system's answer
admin_view_upload ==
    /\ pc = "start"
    /\ inp \notin {NONE, <<>>} /\ Head(inp) # "/"
    /\ out' = _detokenize_path(inp)
    /\ \E exists \in BOOLEAN : pc' = IF exists THEN "sent" ELSE "not_found"
    /\ UNCHANGED <<disk, nfiles, last, reqs, inp>>

NextPath == detokenize \/ admin_view_upload

SpecPath == InitPath /\ [][NextPath]_vars

\* the components of path s, split at "/"
RECURSIVE Components(_)
Components(s) ==
    IF s = <<>> THEN <<<<>>>>
    ELSE LET rest == Components(Tail(s)) IN
         IF Head(s) = "/" THEN <<<<>>>> \o rest
         ELSE <<<<Head(s)>> \o Head(rest)>> \o Tail(rest)

\* the directory chain the file system follows for components comps[i..]
RECURSIVE Walk(_, _, _)
Walk(comps, i, at) ==
    IF i > Len(comps) THEN at
    ELSE IF comps[i] \in {<<>>, <<".">>} THEN Walk(comps, i + 1, at)
    ELSE IF comps[i] = <<".", ".">>
         THEN Walk(comps, i + 1, IF at = <<>> THEN at ELSE SubSeq(at, 1, Len(at) - 1))
    ELSE Walk(comps, i + 1, Append(at, comps[i]))

\* the absolute path p names PERSIST_DIR or something below it
UnderRoot(p) ==
    LET at == Walk(Components(p), 1, <<>>)
        root == Walk(Components(PERSIST_DIR), 1, <<>>)
    IN  /\ p # <<>> /\ Head(p) = "/"
        /\ Len(at) >= Len(root)
        /\ SubSeq(at, 1, Len(root)) = root

\* C2: whatever string is passed to _detokenize_path (with "..", leading "/"
\* or backslashes), the path it returns is under PERSIST_DIR.
C2_ResolvesUnderRoot == pc # "start" => UnderRoot(out)

-----------------------------------------------------------------------------
(* Two requests served concurrently: no lock is taken between a handler's   *)
(* load_data() and its save_data()                                          *)

\* the store after api_create_session and api_create_trainee
ConcStore ==
    api_create_trainee_body(
        api_create_session_body(BaseStore, "S1", S_APS).data, "S1", "TRN-1", <<"t", "1">>).data

ConcRequest(op, key, value) == [op |-> op, key |-> key, value |-> value]

\* the mutating requests that may run concurrently
ConcRequests ==
    { ConcRequest("api_docs_update", "id", S_CONFORME),
      ConcRequest("api_docs_update", "photo", S_CONFORME),
      ConcRequest("api_docs_update", "id", S_NON_CONFORME),
      ConcRequest("public_doc_upload", "id", X_pdf),
      ConcRequest("admin_delete_doc_file", "id", <<>>),
      ConcRequest("public_infos_update", "", <<>>) }

\* the handler body of request r on the store `data` it loaded; n numbers the stored file
ApplyRequest(r, data, n) ==
    CASE r.op = "api_docs_update" ->
            api_docs_update_body(data, "S1", "TRN-1", r.key, "status", r.value)
      [] r.op = "public_doc_upload" ->
            public_doc_upload_body(data, <<"t", "1">>, r.key, r.value, FileToken(n))
      [] r.op = "admin_delete_doc_file" ->
            admin_delete_doc_file_body(data, "S1", "TRN-1", r.key)
      [] r.op = "public_infos_update" ->
            public_infos_update_body(data, <<"t", "1">>, ValidProfile)

ConcIdle == last = NoRequest /\ inp = <<>> /\ out = <<>> /\ pc = "idle"

InitConc ==
    /\ disk = ConcStore
    /\ nfiles = 0
    /\ reqs \in {<<[req |-> a, pc |-> "start", data |-> NoFile],
                   [req |-> b, pc |-> "start", data |-> NoFile]>> : a, b \in ConcRequests}
    /\ ConcIdle

\* request i runs load_data()
conc_load(i) ==
    /\ reqs[i].pc = "start"
    /\ reqs' = [reqs EXCEPT ![i].pc = "loaded", ![i].data = load_data(disk).data]
    /\ disk' = load_data(disk).disk
    /\ UNCHANGED <<nfiles, last, inp, out, pc>>

\* request i ends with the outcome r of its handler
conc_end(i, r) ==
    /\ disk' = IF r.save THEN r.data ELSE disk
    /\ nfiles' = IF r.stored THEN nfiles + 1 ELSE nfiles
    /\ reqs' = [reqs EXCEPT ![i].pc = "done", ![i].data = NoFile]
    /\ UNCHANGED <<last, inp, out, pc>>

\* request i runs the rest of its handler on what it loaded, up to save_data()
conc_save(i) ==
    /\ reqs[i].pc = "loaded"
    /\ conc_end(i, ApplyRequest(reqs[i].req, reqs[i].data, nfiles + 1))

NextConc == \E i \in 1..2 : conc_load(i) \/ conc_save(i)

SpecConc == InitConc /\ [][NextConc]_vars

\* the store d after a handler ended with outcome r
After(d, r) == IF r.save THEN r.data ELSE d

\* request b served alone on store d, storing file number n
SerialStep(d, b, n) == After(d, ApplyRequest(b, load_data(d).data, n))

SerialSecond(ra, b) == SerialStep(After(ConcStore, ra), b, IF ra.stored THEN 2 ELSE 1)

\* the store after request a, then request b, each served alone
Serial(a, b) == SerialSecond(ApplyRequest(a, load_data(ConcStore).data, 1), b)

\* C4: when two mutating requests run concurrently, every interleaving of
\* their load_data / save_data steps ends with a store that holds the effect
\* of both, as if one had been served after the other.
C4_NoLostUpdate ==
    (reqs[1].pc = "done" /\ reqs[2].pc = "done")
        => disk \in {Serial(reqs[1].req, reqs[2].req), Serial(reqs[2].req, reqs[1].req)}

-----------------------------------------------------------------------------
(* Loading a store written by an earlier version *)

\* the largest number of records in a legacy "stagiaires" container
MaxLegacy == 2

S_Signee == <<"S", "i", "g", "n", "e-acute", "e">>
S_incomplet == <<"i", "n", "c", "o", "m", "p", "l", "e", "t">>
S_garbled == <<"?", "?">>

\* records of the old schema: a "dossier" flag, old progress texts, sometimes
\* a token or no id, and one whose "convention" is not a text
LegacyRecords ==
    { [id |-> "TRN-1", dossier |-> S_complet, convention |-> S_Signee],
      [id |-> "TRN-2", dossier |-> S_incomplet, public_token |-> <<"t", "1">>],
      [dossier |-> S_complet],
      [id |-> "TRN-2", dossier |-> S_incomplet, convention |-> NONSTR],
      [id |-> "TRN-1", dossier |-> S_incomplet, test_francais |-> S_garbled] }

RECURSIVE ListsUpTo(_, _)
ListsUpTo(A, n) ==
    IF n = 0 THEN {<<>>}
    ELSE ListsUpTo(A, n - 1) \cup {Append(l, a) : l \in {x \in ListsUpTo(A, n - 1) : Len(x) = n - 1}, a \in A}

LegacySessionBase == [id |-> "S1", type_formation |-> S_APS]

\* the session carries the old container alone, or a "trainees" list as well
LegacySessions ==
    {Put(LegacySessionBase, "stagiaires", l) : l \in ListsUpTo(LegacyRecords, MaxLegacy)}
    \cup {Put(Put(LegacySessionBase, "stagiaires", l), "trainees", <<>>) :
             l \in ListsUpTo(LegacyRecords, MaxLegacy)}
    \cup {Put(Put(LegacySessionBase, "stagiaires", l), "trainees",
              <<NewTrainee("TRN-3", <<"t", "3">>, S_APS)>>) :
             l \in ListsUpTo(LegacyRecords, MaxLegacy)}

LegacyStores == {[sessions |-> <<s>>] : s \in LegacySessions}

\* inp keeps the raw file the process started with
InitLegacy ==
    /\ disk \in LegacyStores
    /\ inp = disk
    /\ nfiles = 0 /\ last = NoRequest /\ reqs = <<>> /\ out = <<>> /\ pc = "start"

NextLegacy ==
    \/ admin_sessions
    \/ admin_trainees
    \/ admin_trainee_page

SpecLegacy == InitLegacy /\ [][NextLegacy]_vars

\* the id a legacy record has after conversion
ConvertedId(st) == _convert_old_stagiaire_to_trainee(st).id

\* the legacy records of the raw file, each with its session's id
RawLegacy ==
    UNION {{[sid |-> s.id, st |-> st] : st \in Range(s.stagiaires)} :
              s \in {x \in Range(inp.sessions) : "stagiaires" \in DOMAIN x}}

\* C9: once a legacy store has been loaded, the dossier_status of every
\* converted trainee is "complete" exactly when the evaluator holds on the
\* converted record: it is not a copy of the legacy "dossier" flag.
C9_ConvertedStatusIsEvaluated ==
    pc = "served" =>
        \A p \in Persisted :
            (p.t.dossier_status = "complete") <=> (dossier_is_complete_total(p.t, p.tt) = "True")

\* C10: once a legacy store has been loaded, every record of every legacy
\* container of the raw file is a trainee of the same session in the store,
\* also when the raw session carried a "trainees" list as well.
C10_NoTraineeLost ==
    pc = "served" =>
        \A r \in RawLegacy :
            \E p \in Persisted : p.sid = r.sid /\ p.t.id = ConvertedId(r.st)

\* the sessions of the raw file that carry the legacy container alone
RawLegacyOnly == {x \in Range(inp.sessions) : "stagiaires" \in DOMAIN x /\ "trainees" \notin DOMAIN x}

\* the record st of raw session s is a trainee of that session in the store,
\* each of its progress fields holding a token of its mapper
KeptAndDegraded(s, st) ==
    \E p \in Persisted :
        /\ p.sid = s.id /\ p.t.id = ConvertedId(st)
        /\ p.t.convention_status \in {"signed", "signing", "soon"}
        /\ p.t.test_fr_status \in {"validated", "relance", "in_progress", "soon"}
        /\ p.t.financement_status \in {"validated", "in_review", "soon"}
        /\ p.t.vae_status \in {"validated", "in_progress", "soon"}

\* C11: once a legacy store has been loaded, whatever its legacy progress
\* fields held (unrecognized texts, values that are not texts), the store still
\* has every session of the raw file and every record of its legacy
\* container, each progress field mapped to a token, the default for a value
\* it does not recognize; the load does not replace the store by an empty one.
C11_LoadKeepsGarbledRecords ==
    pc = "served" =>
        \A s \in RawLegacyOnly :
            /\ \E x \in Range(disk.sessions) : x.id = s.id
            /\ \A st \in Range(s.stagiaires) : KeptAndDegraded(s, st)

-----------------------------------------------------------------------------
(* The documents evaluator on its own *)

S_conforme_padded == <<" ", "c", "o", "n", "f", "o", "r", "m", "e", " ">>
S_a3p_padded == <<" ", "a", "3", "p">>

\* no slot for the key
ABSENT == <<"<absent>">>

EvalKeys == <<"id", "photo", "carte_vitale_doc", "cnaps_doc", "permis", "certif_med", "assurance_rc">>

\* what the slot of key k may be: absent, or of one of these statuses
StatusChoices(k) ==
    IF k \in {"id", "photo", "permis"} THEN {ABSENT, S_CONFORME, S_NON_DEPOSE_ACC}
    ELSE {ABSENT, S_CONFORME}

EvalChoices ==
    {c \in [Range(EvalKeys) -> {ABSENT, S_CONFORME, S_NON_DEPOSE_ACC}] :
        \A k \in Range(EvalKeys) : c[k] \in StatusChoices(k)}

\* the documents list of choice c, from the i-th key on
RECURSIVE ChosenDocs(_, _)
ChosenDocs(c, i) ==
    IF i > Len(EvalKeys) THEN <<>>
    ELSE (IF c[EvalKeys[i]] = ABSENT THEN <<>>
          ELSE <<[key |-> EvalKeys[i], status |-> c[EvalKeys[i]]]>>)
         \o ChosenDocs(c, i + 1)

\* plain: the list as chosen; padded: the "id" slot's CONFORME written in lower
\* case between spaces; twice: a second, unsubmitted "id" slot after the others
EvalVariants == {"plain", "padded", "twice"}

VariantDocs(docs, v) ==
    CASE v = "padded" ->
            [i \in 1..Len(docs) |->
                IF docs[i].key = "id" /\ docs[i].status = S_CONFORME
                THEN [docs[i] EXCEPT !.status = S_conforme_padded] ELSE docs[i]]
      [] v = "twice" -> docs \o <<[key |-> "id", status |-> S_NON_DEPOSE_ACC]>>
      [] OTHER -> docs

EvalInputs ==
    {[t |-> [id |-> "TRN-1", documents |-> VariantDocs(ChosenDocs(c, 1), v), no_permis |-> np],
      tt |-> tt] :
        c \in EvalChoices, v \in EvalVariants, np \in BOOLEAN, tt \in {S_APS, S_A3P, S_a3p_padded}}

InitEval ==
    /\ inp \in EvalInputs
    /\ out = <<>> /\ pc = "start"
    /\ disk = NoFile /\ nfiles = 0 /\ last = NoRequest /\ reqs = <<>>

evaluate ==
    /\ pc = "start"
    /\ out' = dossier_is_complete(inp.t, inp.tt)
    /\ pc' = "evaluated"
    /\ UNCHANGED <<disk, nfiles, last, reqs, inp>>

NextEval == evaluate

SpecEval == InitEval /\ [][NextEval]_vars

\* the keys required for the training type
RequiredKeys(tt) == {KeyOf(rd) : rd \in Range(required_docs_for_training(tt))}

IsA3P(tt) == Upper(Strip(tt)) = S_A3P

\* the keys the trainee is exempted from
WaivedKeys(t, tt) == IF IsA3P(tt) /\ t.no_permis THEN {"permis"} ELSE {}

\* the last slot with key k
LastSlot(docs, k) ==
    docs[CHOOSE i \in 1..Len(docs) :
            /\ docs[i].key = k
            /\ \A j \in 1..Len(docs) : docs[j].key = k => j <= i]

\* C8: dossier_is_complete is true exactly when every key required for the
\* training type, except "permis" for an A3P trainee who declared no licence,
\* has a slot and the last slot with that key has a status equal to CONFORME
\* once trimmed and put in upper case.
C8_CompleteIffAllRequiredConforme ==
    pc = "evaluated" =>
        /\ out \in {"True", "False"}
        /\ (out = "True") <=>
              \A k \in RequiredKeys(inp.tt) \ WaivedKeys(inp.t, inp.tt) :
                  /\ \E d \in Range(inp.t.documents) : d.key = k
                  /\ Upper(Strip(LastSlot(inp.t.documents, k).status)) = S_CONFORME

\* an A3P trainee without licence and without a compliant "permis" slot is complete
C8_Witness ==
    /\ pc = "evaluated" /\ out = "True"
    /\ inp.tt = S_A3P /\ inp.t.no_permis
    /\ \A d \in Range(inp.t.documents) : d.key # "permis"

\* C8 as stated: some slot with the key has the status CONFORME, character for
\* character
C8_CompleteIffSomeSlotExactlyConforme ==
    pc = "evaluated" =>
        ((out = "True") <=>
            \A k \in RequiredKeys(inp.tt) \ WaivedKeys(inp.t, inp.tt) :
                \E d \in Range(inp.t.documents) : d.key = k /\ d.status = S_CONFORME)

-----------------------------------------------------------------------------
(* The slot normalization on its own *)

\* the largest number of slots of a trainee before normalization
MaxSlots == 3

F_1 == <<"f", "1">>
F_2 == <<"f", "2">>

\* slots as earlier versions and the handlers left them: complete ones, one
\* with the single "file" field only, one whose list is empty beside a
\* populated "file", a bare one, the retired "dom", a key of no catalog, and one
\* without key
RawSlots ==
    { [key |-> "id", label |-> <<"I", "D">>, accept |-> S_application_pdf, status |-> S_CONFORME,
       comment |-> <<"o", "k">>, file |-> F_1, files |-> <<F_1, F_2>>],
      [key |-> "id", status |-> S_A_CONTROLER_ACC, file |-> F_1],
      [key |-> "id", status |-> S_NON_CONFORME, comment |-> <<"f", "l", "o", "u">>, file |-> F_2, files |-> <<>>],
      [key |-> "photo"],
      [key |-> "permis", label |-> <<>>, status |-> S_CONFORME, comment |-> <<>>, file |-> F_2, files |-> <<F_2>>],
      [key |-> "dom", status |-> S_CONFORME, file |-> F_1, files |-> <<F_1>>],
      [key |-> "extra", status |-> S_CONFORME],
      [label |-> <<"?">>] }

EnsureInputs ==
    {[t |-> [id |-> "TRN-1", documents |-> docs], tt |-> tt] :
        docs \in ListsUpTo(RawSlots, MaxSlots), tt \in {S_APS, S_A3P}}
    \cup {[t |-> [id |-> "TRN-1"], tt |-> tt] : tt \in {S_APS, S_A3P}}

InitEnsure ==
    /\ inp \in EnsureInputs
    /\ out = <<>> /\ pc = "start"
    /\ disk = NoFile /\ nfiles = 0 /\ last = NoRequest /\ reqs = <<>>

\* out is the trainee the call leaves and the value it returns
ensure_documents ==
    /\ pc = "start"
    /\ out' = [t |-> ensure_documents_schema_for_trainee(inp.t, inp.tt),
               changed |-> ensure_documents_changed(inp.t, inp.tt)]
    /\ pc' = "ensured"
    /\ UNCHANGED <<disk, nfiles, last, reqs, inp>>

NextEnsure == ensure_documents

SpecEnsure == InitEnsure /\ [][NextEnsure]_vars

\* the keys of a list of slots or of catalog entries, in order
KeysOf(docs) == [i \in 1..Len(docs) |-> KeyOf(docs[i])]

\* the slot the trainee holds for key k: the last one of that key
HeldSlot(docs, k) ==
    docs[CHOOSE i \in 1..Len(docs) :
            KeyOf(docs[i]) = k /\ \A j \in 1..Len(docs) : KeyOf(docs[j]) = k => j <= i]

HoldsKey(docs, k) == \E d \in Range(docs) : KeyOf(d) = k

\* C12: after the slot normalization of a trainee, whatever slots it held
\* (missing, extra, retired or duplicated keys, slots without key), the keys
\* of its slots are exactly the keys required for the training type, each once
\* and in catalog order.
C12_SlotKeysAreCatalogKeys ==
    pc = "ensured" => KeysOf(out.t.documents) = KeysOf(required_docs_for_training(inp.tt))

\* a trainee with a duplicated key, a retired key and no "photo" slot was normalized
C12_Witness ==
    /\ pc = "ensured"
    /\ \E i, j \in 1..Len(DocsOf(inp.t)) : i # j /\ KeyOf(inp.t.documents[i]) = "id" /\ KeyOf(inp.t.documents[j]) = "id"
    /\ HoldsKey(DocsOf(inp.t), "dom")
    /\ ~HoldsKey(DocsOf(inp.t), "photo")

\* the fields of slot d that the normalization must not touch
KeptFields(d) == DOMAIN d \cap {"status", "comment", "file", "files"}

IsFreshSlot(o) == o.status = S_NON_DEPOSE_ACC /\ o.files = <<>> /\ o.file = <<>> /\ o.comment = <<>>

C16_SingleFileMigrated ==
    pc = "ensured" =>
        \A o \in Range(out.t.documents) :
            (/\ HoldsKey(DocsOf(inp.t), o.key)
             /\ FilesOf(HeldSlot(inp.t.documents, o.key)) = <<>>
             /\ OrEmpty(Get(HeldSlot(inp.t.documents, o.key), "file")) # <<>>)
            => InSeq(HeldSlot(inp.t.documents, o.key).file, o.files)

-----------------------------------------------------------------------------
(* The records a handler gets from load_data *)

\* the keys of the slots of trainee t
SlotKeySet(t) == {KeyOf(d) : d \in Range(DocsOf(t))}

\* C13: the trainees that load_data returns for a persisted store, which are
\* the records the handlers review, evaluate and count, each have slots for
\* exactly the keys required for their session's training type.
C13_LoadedTraineesAreNormalized ==
    pc = "served" =>
        \A p \in PersistedOf(load_data(disk).data) : SlotKeySet(p.t) = RequiredKeys(p.tt)

-----------------------------------------------------------------------------
(* Normalizing what was already normalized *)

\* a store, normalized by each load_data, or a trainee, normalized by each
\* handler that serves it
TwiceInputs ==
    {[kind |-> "store", v |-> d, tt |-> <<>>] : d \in LegacyStores}
    \cup {[kind |-> "trainee", v |-> x.t, tt |-> x.tt] : x \in EnsureInputs}

InitTwice ==
    /\ inp \in TwiceInputs
    /\ out = <<>> /\ pc = "start"
    /\ disk = NoFile /\ nfiles = 0 /\ last = NoRequest /\ reqs = <<>>

\* what the next pass is applied to
Current == IF pc = "start" THEN inp.v ELSE out.v

NextPass == IF pc = "start" THEN "once" ELSE "twice"

\* reqs keeps the result of the pass before
Passed(v, changed) ==
    /\ out' = [v |-> v, changed |-> changed]
    /\ reqs' = out
    /\ pc' = NextPass
    /\ UNCHANGED <<disk, nfiles, last, inp>>

\* load_data on the file the last load_data left
load_pass ==
    /\ inp.kind = "store" /\ pc \in {"start", "once"}
    /\ Passed(load_data(Current).data, load_data(Current).saved)

\* ensure_documents_schema_for_trainee on the trainee the last call left
ensure_pass ==
    /\ inp.kind = "trainee" /\ pc \in {"start", "once"}
    /\ Passed(ensure_documents_schema_for_trainee(Current, inp.tt),
              ensure_documents_changed(Current, inp.tt))

NextTwice == load_pass \/ ensure_pass

SpecTwice == InitTwice /\ [][NextTwice]_vars

\* C14: the load-time normalization of a store (ensure_public_tokens,
\* normalize_sessions_schema) and the slot normalization of a trainee, applied
\* to their own output, report no change and leave the structure as it was.
C14_SecondPassChangesNothing ==
    pc = "twice" => (~out.changed /\ out.v = reqs.v)

\* a legacy store was converted by the first load and loaded again
C14_Witness ==
    /\ pc = "twice" /\ inp.kind = "store"
    /\ reqs.changed /\ reqs.v # inp.v
    /\ reqs.v.sessions # <<>>

-----------------------------------------------------------------------------
(* The evaluator on the records the handlers hand to it *)

Answers == {"True", "False"}

\* the reviews that api_docs_update accepts
AcceptedReviews == {r \in ReviewInputs : r[2] \in {"status", "comment"}}

\* the record api_docs_update evaluates for review r of trainee t
ReviewedFor(t, r) == ReviewedTrainee(t, SlotIdx(DocsOf(t), r[1]), r[2], r[3])

\* C18: dossier_is_complete_total returns true or false, and never raises, on
\* every persisted trainee and on every record that api_docs_update and
\* public_infos_update evaluate for it, also when the request sets a slot
\* status or a profile field to a value that is not a text.
C18_EvaluatorNeverRaises ==
    \A p \in Persisted :
        /\ dossier_is_complete_total(p.t, p.tt) \in Answers
        /\ \A r \in AcceptedReviews : dossier_is_complete_total(ReviewedFor(p.t, r), p.tt) \in Answers
        /\ \A payload \in InfoPayloads :
              dossier_is_complete_total(InformedTrainee(p.t, payload), p.tt) \in Answers

-----------------------------------------------------------------------------
(* The files of a slot, from a store that still has single-file slots *)

F_OLD == <<"o", "l", "d">>

\* the "id" slot of the trainee: none yet, one of an earlier version with the
\* single "file" only, one with a list, reviewed
OldDocs ==
    { <<>>,
      <<[key |-> "id", status |-> S_A_CONTROLER_ACC, file |-> F_OLD]>>,
      <<[key |-> "id", label |-> <<"I", "D">>, accept |-> S_application_pdf, status |-> S_CONFORME,
         comment |-> <<>>, file |-> F_OLD, files |-> <<F_OLD>>]>> }

OldStores ==
    {[sessions |-> <<[id |-> "S1", training_type |-> S_APS,
                      trainees |-> <<Put(NewTrainee("TRN-1", <<"t", "1">>, S_APS), "documents", docs)>>]>>] :
        docs \in OldDocs}

\* inp keeps the file the process started with
InitFiles ==
    /\ disk \in OldStores
    /\ inp = disk
    /\ nfiles = 0 /\ last = NoRequest /\ reqs = <<>> /\ out = <<>> /\ pc = "start"

NextFiles ==
    \/ admin_upload_doc_file
    \/ public_doc_upload
    \/ api_docs_update
    \/ admin_delete_doc_file
    \/ admin_trainee_page

SpecFiles == InitFiles /\ [][NextFiles]_vars

\* this step served an accepted upload to slot k of trainee tid
SubmitTo(tid, k) ==
    /\ last'.op \in UploadOps /\ last'.res = "ok" /\ last'.tid = tid /\ last'.key = k
    /\ nfiles' = nfiles + 1

\* this step served an accepted clear of slot k of trainee tid
ClearOf(tid, k) ==
    last'.op = "admin_delete_doc_file" /\ last'.res = "ok" /\ last'.tid = tid /\ last'.key = k

\* the list a submit appends to: the slot's files, after them its single
\* "file" when populated and not among them
ListBefore(d) ==
    IF OrEmpty(Get(d, "file")) # <<>> /\ ~InSeq(d.file, FilesOf(d))
    THEN Append(FilesOf(d), d.file) ELSE FilesOf(d)

IsPrefix(a, b) == Len(a) <= Len(b) /\ SubSeq(b, 1, Len(a)) = a

\* what a step may do to the slot: before, after
FilesStep(tid, k, before, after) ==
    IF SubmitTo(tid, k)
    THEN /\ after.files = Append(ListBefore(before), FileToken(nfiles'))
         /\ after.file = after.files[1]
    ELSE ClearOf(tid, k) \/ IsPrefix(FilesOf(before), FilesOf(after))

\* C17: between clears the files of a slot only grow at the end: an accepted
\* submit makes the list the previous list, then the slot's single "file" when
\* populated and not yet in the list, then the new reference, and leaves "file"
\* equal to the first element of the list; no other step but a clear of the
\* slot removes or reorders an element.
C17_FilesAppendOnly ==
    [][\A tid \in TraineeIds, k \in CatalogKeys :
          (StoredSlots(disk, tid, k) # {} /\ StoredSlots(disk', tid, k) # {})
              => FilesStep(tid, k, StoredSlot(disk, tid, k), StoredSlot(disk', tid, k))]_vars

\* an accepted submit on the single-file slot: the old reference, then the new one
C17_Witness ==
    /\ last.op \in UploadOps /\ last.res = "ok" /\ last.key = "id"
    /\ \E p \in PersistedOf(inp) : HoldsKey(DocsOf(p.t), "id") /\ "files" \notin DOMAIN HeldSlot(p.t.documents, "id")
    /\ \E d \in StoredSlots(disk, last.tid, "id") : d.files = <<F_OLD, FileToken(1)>> /\ d.file = F_OLD

-----------------------------------------------------------------------------
(* Requests that only read *)

\* a request that asks for no change: the sessions page, which calls load_data
\* alone, or one of the page views
ReadOnlyRequest == admin_sessions \/ admin_trainees \/ admin_trainee_page \/ public_trainee_space

\* C19: a request that only reads (load_data alone, or the page views
\* admin_trainee_page, admin_trainees and public_trainee_space) leaves the data
\* file as it was: normalization alone never causes a write.
C19_ReadsDoNotWrite == [][ReadOnlyRequest => disk' = disk]_vars

-----------------------------------------------------------------------------
(* References the resolver should refuse *)

\* the outcome of a call that raised InvalidReference instead of returning a path
InvalidReference == <<"<InvalidReference>">>

HasParentSegment(s) == \E c \in Range(Components(s)) : c = <<".", ".">>

IsAbsolute(s) == s # <<>> /\ Head(s) = "/"

\* C20: _detokenize_path rejects with InvalidReference, instead of returning a
\* path, every reference that has a parent-directory segment ("..") or starts
\* with the absolute-path marker "/".
C20_RejectsTraversal ==
    (pc = "resolved" /\ inp # NONE /\ (HasParentSegment(inp) \/ IsAbsolute(inp)))
        => out = InvalidReference

-----------------------------------------------------------------------------
(* A stored path, turned into a reference and back *)

\* "/".join(comps[i..])
RECURSIVE JoinFrom(_, _)
JoinFrom(comps, i) ==
    IF i > Len(comps) THEN <<>>
    ELSE IF i = Len(comps) THEN comps[i]
    ELSE comps[i] \o <<"/">> \o JoinFrom(comps, i + 1)

\* the number of leading components two chains share
RECURSIVE CommonLen(_, _, _)
CommonLen(a, b, i) ==
    IF i <= Len(a) /\ i <= Len(b) /\ a[i] = b[i] THEN CommonLen(a, b, i + 1) ELSE i - 1

\* os.path.relpath(path, start) for absolute POSIX paths: both are normalized,
\* then ".." for each component of start past the common part, then the rest of path
relpath(path, start) ==
    LET p == Walk(Components(path), 1, <<>>)
        st == Walk(Components(start), 1, <<>>)
        c == CommonLen(p, st, 1)
        rel == [i \in 1..(Len(st) - c) |-> <<".", ".">>] \o SubSeq(p, c + 1, Len(p))
    IN  IF rel = <<>> THEN <<".">> ELSE JoinFrom(rel, 1)

_tokenize_path(path) == ReplaceCh(relpath(path, PERSIST_DIR), "\\", "/")

\* the paths _store_file can return: normalized, below PERSIST_DIR, the names
\* of their components up to MaxTokenLen characters in all
StoredPaths ==
    {PERSIST_DIR \o <<"/">> \o s : s \in
        {x \in StringsUpTo(PathChars, MaxTokenLen) :
            /\ x # <<>>
            /\ \A i \in 1..Len(Components(x)) : Components(x)[i] \notin {<<>>, <<".">>, <<".", ".">>}}}

InitRound ==
    /\ inp \in StoredPaths
    /\ out = <<>> /\ pc = "start"
    /\ disk = NoFile /\ nfiles = 0 /\ last = NoRequest /\ reqs = <<>>

\* reqs keeps the reference
tokenize ==
    /\ pc = "start"
    /\ reqs' = _tokenize_path(inp)
    /\ pc' = "tokenized"
    /\ UNCHANGED <<disk, nfiles, last, inp, out>>

resolve ==
    /\ pc = "tokenized"
    /\ out' = _detokenize_path(reqs)
    /\ pc' = "round_trip"
    /\ UNCHANGED <<disk, nfiles, last, inp, reqs>>

NextRound == tokenize \/ resolve

SpecRound == InitRound /\ [][NextRound]_vars

\* C21: _detokenize_path(_tokenize_path(p)) is p for every path p below
\* PERSIST_DIR, also when the name of a component contains "..".
C21_RoundTrip == pc = "round_trip" => out = inp

-----------------------------------------------------------------------------
(* The access tokens of the trainees of a store *)

\* a second trainee the store already holds, with the token states a file can
\* carry: none (written before tokens existed), empty, or set
OtherTrainee ==
    ensure_documents_schema_for_trainee(NewTrainee("TRN-2", <<"t", "2">>, S_APS), S_APS)

TokenStores ==
    {[sessions |-> <<[id |-> "S1", training_type |-> S_APS, trainees |-> <<t>>],
                     [id |-> "S2", training_type |-> S_A3P, trainees |-> <<>>]>>] :
        t \in {OtherTrainee, Put(OtherTrainee, "public_token", <<>>),
               Pop(OtherTrainee, "public_token")}}

InitTokens ==
    /\ disk \in TokenStores
    /\ inp = disk
    /\ nfiles = 0 /\ last = NoRequest /\ reqs = <<>> /\ out = <<>> /\ pc = "start"

NextTokens ==
    \/ api_create_trainee
    \/ api_update_trainee
    \/ api_delete_trainee
    \/ api_docs_update
    \/ admin_upload_doc_file
    \/ admin_delete_doc_file
    \/ public_infos_update
    \/ public_doc_upload
    \/ admin_trainees

SpecTokens == InitTokens /\ [][NextTokens]_vars

\* the trainee records of a store, all sessions together
AllTrainees(d) ==
    IF d = NoFile THEN {}
    ELSE UNION {Range(_session_trainees_list(d.sessions[i])) : i \in 1..Len(d.sessions)}

\* the records of store d whose id is tid
TraineesWithId(d, tid) == {t \in AllTrainees(d) : Get(t, "id") = tid}

HasToken(t) == Get(t, "public_token") \notin {NONE, <<>>}

\* no two trainee records of the store carry the same non-empty token
TokensUnique ==
    \A t1, t2 \in AllTrainees(disk) :
        HasToken(t1) /\ Get(t1, "public_token") = Get(t2, "public_token") => t1 = t2

\* a step keeps the token of every trainee that had one and is still stored
TokensStable ==
    \A t1 \in AllTrainees(disk) : \A t2 \in TraineesWithId(disk', Get(t1, "id")) :
        HasToken(t1) => Get(t2, "public_token") = Get(t1, "public_token")

\* C22: in every reachable store no two trainees share a public_token, and no
\* request (load-time normalization, admin update, profile edit, submit,
\* review, clear) changes the non-empty public_token of a trainee it keeps
C22_TokensUniqueAndStable == [][TokensUnique /\ TokensUnique' /\ TokensStable]_vars

\* two trainees with a token each are stored, and an admin update whose
\* payload carried another public_token was just served
C22_Witness ==
    /\ last.op = "api_update_trainee"
    /\ \E t1, t2 \in AllTrainees(disk) : t1 # t2 /\ HasToken(t1) /\ HasToken(t2)
    /\ \A t \in AllTrainees(inp) : ~HasToken(t)

-----------------------------------------------------------------------------
(* The writes of a request, one step at a time *)

NewIds == {"TRN-2", "TRN-3"}
NewTokens == {<<"t", "2">>, <<"t", "3">>}

\* _now_iso()
S_now == <<"n", "o", "w">>

\* send_access of the payload, and what brevo_send_email and brevo_send_sms return
Notices ==
    {<<FALSE, FALSE, FALSE>>, <<TRUE, FALSE, FALSE>>, <<TRUE, TRUE, FALSE>>, <<TRUE, TRUE, TRUE>>}

\* api_create_trainee 1027-1036: the notification fields of the new record
Notified(t, n) ==
    Put(Put(Put(t, "access_sent_at", IF n[1] THEN S_now ELSE <<>>),
            "access_sent_email_ok", n[1] /\ n[2]),
        "access_sent_sms_ok", n[1] /\ n[3])

\* data once the record inserted at the head of the session's list is notified
NotifiedStore(data, si, n) ==
    WithTrainees(data, si,
        <<Notified(Head(_session_trainees_list(data.sessions[si])), n)>>
            \o Tail(_session_trainees_list(data.sessions[si])))

\* admin_delete_doc_file 1278-1285: the references whose files are removed
TokensToRemove(target) ==
    IF FilesOf(target) # <<>> THEN FilesOf(target)
    ELSE IF Strip(OrEmpty(Get(target, "file"))) # <<>> THEN <<Strip(OrEmpty(Get(target, "file")))>>
    ELSE <<>>

\* the slot admin_delete_doc_file resets
DeleteTarget(data, session_id, trainee_id, doc_key) ==
    LET at == Locate(data, session_id, trainee_id)
        docs == DocsOf(ensure_documents_schema_for_trainee(at.trainees[at.ti], at.training_type))
    IN docs[SlotIdx(docs, doc_key)]

\* files referenced by the slots of the store
StoredFiles(d) ==
    UNION {UNION {Range(TokensToRemove(x)) : x \in Range(DocsOf(p.t))} : p \in PersistedOf(d)}

\* disk is the data file; inp the store the running request loaded, reqs the
\* store it is to leave, out its `data` in memory; nfiles counts the files
\* under the storage root
InitSteps ==
    /\ disk \in OldStores
    /\ inp = disk /\ reqs = disk /\ out = disk
    /\ nfiles = Cardinality(StoredFiles(disk))
    /\ last = NoRequest /\ pc = "start"

AtRest == pc \in {"start", "done"}

\* api_create_trainee up to trainees.insert(0, t): lines 890-944
create_insert ==
    /\ AtRest
    /\ \E tid \in NewIds \ UsedTraineeIds(disk), tok \in NewTokens \ UsedTokens(disk), n \in Notices :
          /\ api_create_trainee_body(Loaded, "S1", tid, tok).res = "ok"
          /\ out' = api_create_trainee_body(Loaded, "S1", tid, tok).data
          /\ reqs' = NotifiedStore(api_create_trainee_body(Loaded, "S1", tid, tok).data,
                                   find_session(Loaded, "S1"), n)
    /\ disk' = load_data(disk).disk
    /\ inp' = load_data(disk).disk
    /\ pc' = "create_inserted"
    /\ UNCHANGED <<nfiles, last>>

\* api_create_trainee line 945: save_data(data)
create_save ==
    /\ pc = "create_inserted"
    /\ disk' = out
    /\ pc' = "create_saved"
    /\ UNCHANGED <<nfiles, last, reqs, inp, out>>

\* api_create_trainee lines 947-1036: the messages are sent, t gets its fields
create_notify ==
    /\ pc = "create_saved"
    /\ out' = reqs
    /\ pc' = "create_notified"
    /\ UNCHANGED <<disk, nfiles, last, reqs, inp>>

\* api_create_trainee line 1038: save_data(data)
create_save_again ==
    /\ pc = "create_notified"
    /\ disk' = out
    /\ pc' = "done"
    /\ UNCHANGED <<nfiles, last, reqs, inp, out>>

\* admin_delete_doc_file up to the choice of the slot: lines 1256-1276
delete_find ==
    /\ AtRest
    /\ \E tid \in UsedTraineeIds(disk), key \in ClearKeys :
          /\ admin_delete_doc_file_body(Loaded, "S1", tid, key).res = "ok"
          /\ reqs' = admin_delete_doc_file_body(Loaded, "S1", tid, key).data
          /\ last' = [op |-> "admin_delete_doc_file", tid |-> tid, key |-> key, res |-> ""]
    /\ out' = Loaded
    /\ disk' = load_data(disk).disk
    /\ inp' = load_data(disk).disk
    /\ pc' = "delete_found"
    /\ UNCHANGED nfiles

\* admin_delete_doc_file lines 1278-1294: os.remove of each referenced file
\* that exists; the stores here refer to one file at most
delete_remove ==
    /\ pc = "delete_found"
    /\ nfiles' = IF TokensToRemove(DeleteTarget(out, "S1", last.tid, last.key)) = <<>>
                 THEN nfiles ELSE 0
    /\ pc' = "delete_removed"
    /\ UNCHANGED <<disk, last, reqs, inp, out>>

\* admin_delete_doc_file lines 1296-1309: the slot is reset, save_data(data)
delete_save ==
    /\ pc = "delete_removed"
    /\ disk' = reqs
    /\ out' = reqs
    /\ last' = NoRequest
    /\ pc' = "done"
    /\ UNCHANGED <<nfiles, reqs, inp>>

\* the process stops between two steps of a request and is started again
crash ==
    /\ ~AtRest
    /\ pc' = "done"
    /\ last' = NoRequest
    /\ UNCHANGED <<disk, nfiles, reqs, inp, out>>

NextSteps ==
    \/ create_insert
    \/ create_save
    \/ create_notify
    \/ create_save_again
    \/ delete_find
    \/ delete_remove
    \/ delete_save
    \/ crash

SpecSteps == InitSteps /\ [][NextSteps]_vars

\* C23: at every point at which the store can be observed, the data file
\* holds the complete state before the running (or interrupted) request or
\* the complete state after it
C23_StoreIsBeforeOrAfter == disk = inp \/ disk = reqs

\* the data file never refers to a file that was removed
FilesAreThere == Cardinality(StoredFiles(disk)) <= nfiles

-----------------------------------------------------------------------------
(* Requests for a document key the program type does not have *)

\* stores whose trainee holds slots of an earlier catalog: the proof of
\* address "dom", and "permis" in a session that is not A3P
LegacyKeyDocs ==
    { <<[key |-> k, label |-> <<"x">>, accept |-> S_application_pdf, status |-> S_A_CONTROLER_ACC,
         comment |-> <<>>, file |-> F_OLD, files |-> <<F_OLD>>]>> : k \in {"dom", "permis"} }
    \cup { <<[key |-> "dom", status |-> S_A_CONTROLER_ACC, file |-> F_OLD],
            [key |-> "id", status |-> S_CONFORME, file |-> <<>>]>> }

LegacyKeyStores ==
    {[sessions |-> <<[id |-> "S1", training_type |-> S_APS,
                      trainees |-> <<Put(NewTrainee("TRN-1", <<"t", "1">>, S_APS), "documents", docs)>>]>>] :
        docs \in LegacyKeyDocs}

InitKeys ==
    /\ disk \in LegacyKeyStores
    /\ inp = disk
    /\ nfiles = 0 /\ last = NoRequest /\ reqs = <<>> /\ out = <<>> /\ pc = "start"

SpecKeys == InitKeys /\ [][NextFiles]_vars

\* the program type of the session with id sid in the loaded store
LoadedType(sid) ==
    _session_get(Loaded.sessions[find_session(Loaded, sid)], "training_type", <<>>)

OutsideCatalog(sid, key) ==
    /\ find_session(Loaded, sid) # 0
    /\ key \notin allowed_doc_keys_for_training(LoadedType(sid))

\* a submit served for a key outside the catalog of the session
OutsideSubmit ==
    /\ nfiles < MaxUploads
    /\ \E sid \in SessionIds, tid \in TraineeIds, key \in UploadKeys, ext \in FileInputs :
          /\ OutsideCatalog(sid, key)
          /\ \/ Serve("admin_upload_doc_file", key,
                       admin_upload_doc_file_body(Loaded, sid, tid, key, ext, FileToken(nfiles + 1)))
             \/ \E tok \in PublicTokens :
                   Serve("public_doc_upload", key,
                         public_doc_upload_body(Loaded, tok, key, ext, FileToken(nfiles + 1)))

\* a clear served for a key outside the catalog of the session
OutsideClear ==
    \E sid \in SessionIds, tid \in TraineeIds, key \in ClearKeys :
        /\ OutsideCatalog(sid, key)
        /\ Serve("admin_delete_doc_file", key, admin_delete_doc_file_body(Loaded, sid, tid, key))

\* a review served for a key outside the catalog of the session
OutsideReview ==
    \E sid \in SessionIds, tid \in TraineeIds, p \in ReviewInputs :
        /\ OutsideCatalog(sid, p[1])
        /\ Serve("api_docs_update", p[1], api_docs_update_body(Loaded, sid, tid, p[1], p[2], p[3]))

\* the slots of every trainee of store d
SlotsIn(d) == {<<p.sid, Get(p.t, "id"), DocsOf(p.t)>> : p \in PersistedOf(d)}

\* C24: a submit, review or clear for a document key outside the catalog of
\* the trainee's program type leaves every stored slot as it was, also when
\* the trainee holds a legacy slot with that key
C24_OutsideKeyChangesNoSlot ==
    [][OutsideSubmit \/ OutsideReview \/ OutsideClear => SlotsIn(disk') = SlotsIn(disk)]_vars

\* the same for submits and clears alone
OutsideSubmitClearChangeNoSlot ==
    [][OutsideSubmit \/ OutsideClear => SlotsIn(disk') = SlotsIn(disk)]_vars

-----------------------------------------------------------------------------
(* Conformity of a trainee and of a session *)

\* t.get(k) == v for a status value v
StatusIs(t, k, v) == k \in DOMAIN t /\ t[k] = v

\* trainee_is_conform that asks for vae_status whatever the program type
trainee_is_conform_vae_always(t, training_type) ==
    /\ StatusIs(t, "convention_status", "signed")
    /\ StatusIs(t, "test_fr_status", "validated")
    /\ StatusIs(t, "dossier_status", "complete")
    /\ StatusIs(t, "financement_status", "validated")
    /\ StatusIs(t, "vae_status", "validated")

trainee_is_conform(t, training_type) ==
    IF ~StatusIs(t, "convention_status", "signed") THEN FALSE
    ELSE IF ~StatusIs(t, "test_fr_status", "validated") THEN FALSE
    ELSE IF ~StatusIs(t, "dossier_status", "complete") THEN FALSE
    ELSE IF ~StatusIs(t, "financement_status", "validated") THEN FALSE
    ELSE IF training_type = S_DIRIGEANT_VAE /\ ~StatusIs(t, "vae_status", "validated") THEN FALSE
    ELSE TRUE

session_is_conform(session) ==
    IF _session_trainees_list(session) = <<>> THEN FALSE
    ELSE \A i \in 1..Len(_session_trainees_list(session)) :
            trainee_is_conform(_session_trainees_list(session)[i],
                               _session_get(session, "training_type", <<>>))

\* sum(1 for t in trainees if trainee_is_conform(t, training_type))
ConformCount(trainees, training_type) ==
    Cardinality({i \in 1..Len(trainees) : trainee_is_conform(trainees[i], training_type)})

\* compute_stats that takes a session without trainee for conform
compute_stats_empty_conform(session) ==
    [ total |-> Len(_session_trainees_list(session)),
      conform_count |-> ConformCount(_session_trainees_list(session),
                                     _session_get(session, "training_type", <<>>)),
      non_conform_count |-> Len(_session_trainees_list(session))
                            - ConformCount(_session_trainees_list(session),
                                           _session_get(session, "training_type", <<>>)),
      session_is_conform |->
          ConformCount(_session_trainees_list(session),
                       _session_get(session, "training_type", <<>>))
              = Len(_session_trainees_list(session)) ]

compute_stats(session) ==
    [ total |-> Len(_session_trainees_list(session)),
      conform_count |-> ConformCount(_session_trainees_list(session),
                                     _session_get(session, "training_type", <<>>)),
      non_conform_count |-> Len(_session_trainees_list(session))
                            - ConformCount(_session_trainees_list(session),
                                           _session_get(session, "training_type", <<>>)),
      session_is_conform |->
          /\ Len(_session_trainees_list(session)) > 0
          /\ ConformCount(_session_trainees_list(session),
                          _session_get(session, "training_type", <<>>))
              = Len(_session_trainees_list(session)) ]

\* the largest number of trainees of a session here
MaxTrainees == 2

VaeChoices == {"validated", "soon"}

\* trainees with each progress field at its final value or not
FullTrainees ==
    [ convention_status : {"signed", "soon"}, test_fr_status : {"validated", "soon"},
      dossier_status : {"complete", "incomplete"},
      financement_status : {"validated", "soon"}, vae_status : VaeChoices ]

\* the same, vae_status possibly missing
ConformTrainees == FullTrainees \cup {Pop(t, "vae_status") : t \in FullTrainees}

\* sessions of two program types, the type under its current or its old key
ConformSessions ==
    { Put(b, "trainees", l) :
        b \in { [id |-> "S1", training_type |-> S_APS],
                [id |-> "S1", training_type |-> S_DIRIGEANT_VAE],
                [id |-> "S1", type_formation |-> S_DIRIGEANT_VAE] },
        l \in ListsUpTo(ConformTrainees, MaxTrainees) }

InitConform ==
    /\ inp \in ConformSessions
    /\ disk = NoFile /\ nfiles = 0 /\ last = NoRequest /\ reqs = <<>> /\ out = <<>>
    /\ pc = "start"

\* trainee_is_conform on each trainee of the session
conform_each ==
    /\ pc = "start"
    /\ out' = [i \in 1..Len(inp.trainees) |->
                  trainee_is_conform(inp.trainees[i], _session_get(inp, "training_type", <<>>))]
    /\ pc' = "conform"
    /\ UNCHANGED <<disk, nfiles, last, reqs, inp>>

session_conform ==
    /\ pc = "start"
    /\ out' = session_is_conform(inp)
    /\ pc' = "session"
    /\ UNCHANGED <<disk, nfiles, last, reqs, inp>>

stats ==
    /\ pc = "start"
    /\ out' = compute_stats(inp)
    /\ pc' = "stats"
    /\ UNCHANGED <<disk, nfiles, last, reqs, inp>>

NextConform == conform_each \/ session_conform \/ stats

SpecConform == InitConform /\ [][NextConform]_vars

TypeOf(session) == _session_get(session, "training_type", <<>>)

\* the four progress fields at their final values
FourFinal(t) ==
    /\ StatusIs(t, "convention_status", "signed")
    /\ StatusIs(t, "test_fr_status", "validated")
    /\ StatusIs(t, "dossier_status", "complete")
    /\ StatusIs(t, "financement_status", "validated")

\* C25: trainee_is_conform(t, type) is true exactly when the four progress
\* fields are "signed", "validated", "complete", "validated" and, for the type
\* DIRIGEANT VAE only, vae_status is "validated"; for every other type the
\* answer is the same whatever vae_status is
C25_ConformIffFinal ==
    pc = "conform" =>
        \A i \in 1..Len(inp.trainees) :
            /\ out[i] = ( /\ FourFinal(inp.trainees[i])
                          /\ TypeOf(inp) = S_DIRIGEANT_VAE
                                => StatusIs(inp.trainees[i], "vae_status", "validated") )
            /\ TypeOf(inp) # S_DIRIGEANT_VAE =>
                  \A v \in VaeChoices :
                      trainee_is_conform(Put(inp.trainees[i], "vae_status", v), TypeOf(inp)) = out[i]

\* a trainee of another type is conform without a validated vae_status, next
\* to one that is not conform
C25_Witness ==
    /\ pc = "conform" /\ Len(inp.trainees) = 2 /\ TypeOf(inp) = S_APS
    /\ out[1] /\ ~StatusIs(inp.trainees[1], "vae_status", "validated")
    /\ ~out[2]

\* C26: session_is_conform is true exactly when the session has a trainee
\* and every trainee is conform; compute_stats has total = conform_count +
\* non_conform_count and its flag equals session_is_conform(session)
C26_SessionConform ==
    /\ pc = "session" =>
          out = ( /\ Len(inp.trainees) > 0
                  /\ \A i \in 1..Len(inp.trainees) :
                        trainee_is_conform(inp.trainees[i], TypeOf(inp)) )
    /\ pc = "stats" =>
          /\ out.total = Len(inp.trainees)
          /\ out.total = out.conform_count + out.non_conform_count
          /\ out.session_is_conform = session_is_conform(inp)

\* the statistics of a session without trainee
C26_Witness == pc = "stats" /\ out.total = 0 /\ ~out.session_is_conform

-----------------------------------------------------------------------------
(* The catalog of a program type *)

\* the longest program type text
MaxTypeLen == 4

TypeChars == {"A", "a", "3", "P", " "}

TypeTexts == StringsUpTo(TypeChars, MaxTypeLen) \cup {NONE, S_APS, S_DIRIGEANT_VAE}

\* reqs is REQUIRED_DOCS, inp the type of the last call, out what it returned
InitCatalog ==
    /\ reqs = REQUIRED_DOCS
    /\ inp = <<>> /\ out = <<>>
    /\ disk = NoFile /\ nfiles = 0 /\ last = NoRequest /\ pc = "start"

required_docs ==
    /\ pc = "start"
    /\ \E tt \in TypeTexts :
        /\ inp' = tt
        /\ out' = required_docs_call(reqs, tt).docs
        /\ reqs' = required_docs_call(reqs, tt).catalog
        /\ pc' = "called"
        /\ UNCHANGED <<disk, nfiles, last>>

NextCatalog == required_docs

SpecCatalog == InitCatalog /\ [][NextCatalog]_vars

CommonKeys == <<"id", "photo", "carte_vitale_doc", "cnaps_doc">>
A3POnlyKeys == <<"permis", "certif_med", "assurance_rc">>

\* the keys of a list of definitions, in order
KeyList(docs) == [i \in 1..Len(docs) |-> docs[i].key]

\* the call left the catalog as the source defines it
CatalogIntact ==
    /\ KeyList(reqs.COMMON) = CommonKeys
    /\ KeyList(reqs.A3P_ONLY) = A3POnlyKeys

\* C27: required_docs_for_training(type) returns the four common definitions
\* in order, followed by the three A3P definitions in order exactly when the
\* type, trimmed and upper-cased, is "A3P"; the catalog is left as it was
C27_CatalogOfType ==
    pc = "called" =>
        /\ KeyList(out) = IF Upper(Strip(OrEmpty(inp))) = S_A3P
                          THEN CommonKeys \o A3POnlyKeys ELSE CommonKeys
        /\ \A i \in 1..Len(out) : out[i] \in Range(REQUIRED_DOCS_COMMON \o REQUIRED_DOCS_A3P_ONLY)
        /\ CatalogIntact

\* a lower-case, padded type got the seven definitions
C27_Witness == pc = "called" /\ inp = <<" ", "a", "3", "P">> /\ Len(out) = 7

\* the three A3P definitions follow only when the type equals "A3P"
C27_A3POnlyWhenEqual ==
    pc = "called" =>
        KeyList(out) = IF inp = S_A3P THEN CommonKeys \o A3POnlyKeys ELSE CommonKeys

-----------------------------------------------------------------------------
(* Completeness of the profile *)

Zeros(n) == [i \in 1..n |-> "0"]

\* a number text: prefix p, then groups of a, b, c, d and e digits
PreText(p, a, b, c, d, e) ==
    p \o <<"-">> \o Zeros(a) \o <<"-">> \o Zeros(b) \o <<"-">> \o Zeros(c)
      \o <<"-">> \o Zeros(d) \o <<"-">> \o Zeros(e)

PreChoices ==
    { PreText(p, a, 4, 2, d, e) :
        p \in {<<"P", "R", "E">>, <<"c", "a", "r">>, <<"P", "R", "X">>, <<"X", "P", "R", "E">>},
        a \in {2, 3}, d \in {1, 2}, e \in {10, 11, 12} }
    \cup { S_PRE_OK, PreText(<<"P", "R", "E">>, 3, 4, 2, 2, 11) \o <<"X">>,
           PreText(<<"P", " ", "R", "E">>, 3, 5, 2, 2, 11), <<>> }

SecuChoices ==
    { Zeros(14), Zeros(15), Zeros(16), S_SECU_15, <<"n", "o">> \o Zeros(15) \o <<".">>, <<>> }

\* the valid profile, and the ones with one required field blank, None or missing
FieldChoices ==
    {ValidProfile}
    \cup {Put(ValidProfile, InfoRequired[i], v) : i \in 1..Len(InfoRequired), v \in {<<" ", "\t">>, NONE}}
    \cup {Pop(ValidProfile, InfoRequired[i]) : i \in 1..Len(InfoRequired)}

InfoInputs ==
    { Put(Put(f, "carte_vitale", secu), "pre_number", pre) :
        f \in FieldChoices, secu \in SecuChoices, pre \in PreChoices }

InitInfos ==
    /\ inp \in InfoInputs
    /\ disk = NoFile /\ nfiles = 0 /\ last = NoRequest /\ reqs = <<>> /\ out = ""
    /\ pc = "start"

infos ==
    /\ pc = "start"
    /\ out' = infos_is_complete(inp)
    /\ pc' = "infos"
    /\ UNCHANGED <<disk, nfiles, last, reqs, inp>>

NextInfos == infos

SpecInfos == InitInfos /\ [][NextInfos]_vars

\* the pieces of s between the occurrences of character c
RECURSIVE SplitAt(_, _, _)
SplitAt(s, c, piece) ==
    IF s = <<>> THEN <<piece>>
    ELSE IF Head(s) = c THEN <<piece>> \o SplitAt(Tail(s), c, <<>>)
    ELSE SplitAt(Tail(s), c, Append(piece, Head(s)))

IsNumber(s) == \A i \in 1..Len(s) : s[i] \in Digits

NonBlank(t, k) == k \in DOMAIN t /\ t[k] # NONE /\ \E i \in 1..Len(t[k]) : t[k][i] \notin Whitespace

DigitCount(s) == Cardinality({i \in 1..Len(s) : s[i] \in Digits})

\* (PRE|CAR)-NNN-YYYY-MM-DD-<at least 11 digits>, spaces removed, case ignored
PreWellFormed(s) ==
    LET g == SplitAt(Upper(RemoveCh(s, " ")), "-", <<>>)
    IN  /\ Len(g) = 6
        /\ g[1] \in {<<"P", "R", "E">>, <<"C", "A", "R">>}
        /\ \A i \in 2..6 : IsNumber(g[i])
        /\ Len(g[2]) = 3 /\ Len(g[3]) = 4 /\ Len(g[4]) = 2 /\ Len(g[5]) = 2 /\ Len(g[6]) >= 11

\* C28: infos_is_complete is true exactly when each of the seven required
\* fields is non-blank after trimming, carte_vitale has exactly 15 digits once
\* the non-digits are removed, and pre_number, spaces removed and case
\* ignored, has the form (PRE|CAR)-NNN-YYYY-MM-DD-<at least 11 digits>
C28_ProfileComplete ==
    pc = "infos" =>
        (out = "True") =
            ( /\ \A i \in 1..Len(InfoRequired) : NonBlank(inp, InfoRequired[i])
              /\ DigitCount(inp.carte_vitale) = 15
              /\ PreWellFormed(inp.pre_number) )

\* a complete profile whose number is in lower case with a space inside and
\* whose social security number is written with spaces
C28_Witness ==
    /\ pc = "infos" /\ out = "True"
    /\ inp.pre_number = S_PRE_OK /\ inp.carte_vitale = S_SECU_15

-----------------------------------------------------------------------------
(* What the holder of an access token can change *)

\* a store the load-time and the slot normalization leave as it is, with
\* distinct tokens
CanonicalStore(d) ==
    /\ d # NoFile
    /\ load_data(d).disk = d
    /\ \A p \in PersistedOf(d) : ~ensure_documents_changed(p.t, p.tt)
    /\ \A t1, t2 \in AllTrainees(d) :
          HasToken(t1) /\ Get(t1, "public_token") = Get(t2, "public_token") => t1 = t2

IsHolder(t, tok) == Strip(OrEmpty(Get(t, "public_token"))) = tok

Holders(d, tok) == {t \in AllTrainees(d) : IsHolder(t, tok)}

\* store d with the record of the token's holder reduced to its id
MaskHolder(d, tok) ==
    [i \in 1..Len(d.sessions) |->
        Put(d.sessions[i], "trainees",
            [j \in 1..Len(_session_trainees_list(d.sessions[i])) |->
                IF IsHolder(_session_trainees_list(d.sessions[i])[j], tok)
                THEN [id |-> Get(_session_trainees_list(d.sessions[i])[j], "id")]
                ELSE _session_trainees_list(d.sessions[i])[j]])]

\* a request of the trainee space served for token tok
SelfService(tok) ==
    \/ \E payload \in InfoPayloads :
          Serve("public_infos_update", "", public_infos_update_body(Loaded, tok, payload))
    \/ /\ nfiles < MaxUploads
       /\ \E key \in UploadKeys, ext \in FileInputs :
             Serve("public_doc_upload", key,
                   public_doc_upload_body(Loaded, tok, key, ext, FileToken(nfiles + 1)))

ProgressFields == {"convention_status", "test_fr_status", "financement_status", "vae_status"}

SameField(t1, t2, k) ==
    /\ (k \in DOMAIN t1) = (k \in DOMAIN t2)
    /\ k \in DOMAIN t1 => t1[k] = t2[k]

\* every slot status of t2 is the one t1 had at that place, or under review
StatusKeptOrReview(t1, t2) ==
    \A i \in 1..Len(DocsOf(t2)) :
        \/ Get(DocsOf(t2)[i], "status") = S_A_CONTROLER_ACC
        \/ i <= Len(DocsOf(t1)) /\ Get(DocsOf(t2)[i], "status") = Get(DocsOf(t1)[i], "status")

\* C29: on a canonical store, public_infos_update and public_doc_upload for
\* token T leave every other trainee and every session as they were, leave
\* the holder's convention_status, test_fr_status, financement_status and
\* vae_status as they were, and set no slot status to anything but
\* "A CONTROLER" (accented in the source)
C29_SelfServiceFrame ==
    [][\A tok \in PublicTokens :
          CanonicalStore(disk) /\ SelfService(tok) =>
              /\ MaskHolder(disk', tok) = MaskHolder(disk, tok)
              /\ \A t1 \in Holders(disk, tok) : \A t2 \in Holders(disk', tok) :
                    /\ \A k \in ProgressFields : SameField(t1, t2, k)
                    /\ StatusKeptOrReview(t1, t2)]_vars

\* a file the holder submitted was stored next to another trainee, and the
\* slot is under review
C29_Witness ==
    /\ last.op = "public_doc_upload" /\ last.key = "id"
    /\ Cardinality(AllTrainees(disk)) = 2
    /\ \E t \in Holders(disk, <<"t", "1">>) :
          /\ FilesOf(DocsOf(t)[SlotIdx(DocsOf(t), "id")]) # <<>>
          /\ Get(DocsOf(t)[SlotIdx(DocsOf(t), "id")], "status") = S_A_CONTROLER_ACC

-----------------------------------------------------------------------------
(* A complete dossier whose slots are cleared, submitted and reviewed *)

\* slot d as a review left it once its file was accepted
AcceptedSlot(d) == Put(Put(Put(d, "status", S_CONFORME), "file", F_OLD), "files", <<F_OLD>>)

\* a trainee of a session of type tt whose profile was entered through
\* public_infos_update and whose slots were all reviewed as compliant
CompleteTrainee(tt) ==
    [k \in DOMAIN InformedTrainee(NewTrainee("TRN-1", <<"t", "1">>, tt), ValidProfile) |->
        IF k = "documents"
        THEN [i \in 1..Len(required_docs_for_training(tt)) |->
                 AcceptedSlot(NewSlot(required_docs_for_training(tt)[i]))]
        ELSE IF k = "dossier_status" THEN "complete"
        ELSE InformedTrainee(NewTrainee("TRN-1", <<"t", "1">>, tt), ValidProfile)[k]]

CompleteStores ==
    {[sessions |-> <<[id |-> "S1", training_type |-> tt, trainees |-> <<CompleteTrainee(tt)>>]>>] :
        tt \in {S_APS, S_A3P}}

\* reqs is the set of slot keys cleared since their last compliant review
\* (or, for "permis", since the waiver was last set)
InitClear ==
    /\ disk \in CompleteStores
    /\ inp = disk
    /\ reqs = {}
    /\ nfiles = 0 /\ last = NoRequest /\ out = <<>> /\ pc = "start"

\* Serve, with the cleared keys noted in reqs
ServeNoted(op, key, r, pending) ==
    /\ disk' = IF r.save THEN r.data ELSE load_data(disk).disk
    /\ nfiles' = IF r.stored THEN nfiles + 1 ELSE nfiles
    /\ last' = IF r.res = "ok" /\ op \in Tracked
               THEN [op |-> op, tid |-> r.tid, key |-> key, res |-> "ok"]
               ELSE NoRequest
    /\ reqs' = pending
    /\ pc' = "served"
    /\ UNCHANGED <<inp, out>>

NotedKeys == {"id", "permis"}

\* the trainee and the program type the handlers find
FoundTrainee == Locate(Loaded, "S1", "TRN-1").trainees[Locate(Loaded, "S1", "TRN-1").ti]
FoundType == Locate(Loaded, "S1", "TRN-1").training_type

\* the payload sets the waiver of an A3P trainee
SetsWaiver(payload) ==
    "no_permis" \in DOMAIN payload /\ payload.no_permis /\ IsA3P(FoundType)

clear_noted ==
    \E key \in NotedKeys :
        ServeNoted("admin_delete_doc_file", key,
                   admin_delete_doc_file_body(Loaded, "S1", "TRN-1", key),
                   IF admin_delete_doc_file_body(Loaded, "S1", "TRN-1", key).res = "ok"
                      /\ key \notin WaivedKeys(FoundTrainee, FoundType)
                   THEN reqs \cup {key} ELSE reqs)

review_noted ==
    \E key \in NotedKeys, v \in {S_CONFORME, S_NON_CONFORME} :
        ServeNoted("api_docs_update", key,
                   api_docs_update_body(Loaded, "S1", "TRN-1", key, "status", v),
                   IF api_docs_update_body(Loaded, "S1", "TRN-1", key, "status", v).res = "ok"
                      /\ v = S_CONFORME
                   THEN reqs \ {key} ELSE reqs)

submit_noted ==
    /\ nfiles < MaxUploads
    /\ \E key \in NotedKeys :
          \/ ServeNoted("admin_upload_doc_file", key,
                        admin_upload_doc_file_body(Loaded, "S1", "TRN-1", key, X_pdf,
                                                   FileToken(nfiles + 1)),
                        reqs)
          \/ ServeNoted("public_doc_upload", key,
                        public_doc_upload_body(Loaded, <<"t", "1">>, key, X_pdf,
                                               FileToken(nfiles + 1)),
                        reqs)

NotedInfoPayloads == {[no_permis |-> TRUE], [no_permis |-> FALSE, city |-> <<"X">>]}

edit_noted ==
    \E payload \in NotedInfoPayloads :
        ServeNoted("public_infos_update", "",
                   public_infos_update_body(Loaded, <<"t", "1">>, payload),
                   IF public_infos_update_body(Loaded, <<"t", "1">>, payload).res = "ok"
                      /\ SetsWaiver(payload)
                   THEN reqs \ {"permis"} ELSE reqs)

NotedUpdatePayloads == {[dossier_status |-> "complete"], [no_permis |-> TRUE]}

update_noted ==
    \E payload \in NotedUpdatePayloads :
        ServeNoted("api_update_trainee", "",
                   api_update_trainee_body(Loaded, "S1", "TRN-1", payload),
                   IF api_update_trainee_body(Loaded, "S1", "TRN-1", payload).res = "ok"
                      /\ SetsWaiver(payload)
                   THEN reqs \ {"permis"} ELSE reqs)

NextClear ==
    \/ clear_noted
    \/ review_noted
    \/ submit_noted
    \/ edit_noted
    \/ update_noted

SpecClear == InitClear /\ [][NextClear]_vars

\* C30: from the clear of a required slot that the waiver does not exempt
\* until a review sets that slot to CONFORME (or, for "permis" of an A3P
\* trainee, the waiver is set), the stored dossier_status is "incomplete",
\* whatever submits, profile edits and admin updates are served
C30_IncompleteUntilReviewed ==
    reqs # {} => \A t \in AllTrainees(disk) : t.dossier_status = "incomplete"

\* the "id" slot was cleared, a file was submitted to it, and an admin update
\* asking for "complete" was just served
C30_Witness ==
    /\ "id" \in reqs /\ nfiles = 1
    /\ last.op = "api_update_trainee"
    /\ \E t \in AllTrainees(disk) :
          Get(DocsOf(t)[SlotIdx(DocsOf(t), "id")], "status") = S_A_CONTROLER_ACC

\* the stores the requests start from hold a complete dossier
StartsComplete ==
    pc = "start" => \A p \in Persisted : DossierStatusFor(p.t, p.tt) = "complete"

====
